---- MODULE Spec2Model ----
(***************************************************************************)
(* Timeline reconstruction of f1-race-intelligence: rag/timeline.py        *)
(* (TimelineBuilder) and openf1/api.py (OpenF1Client).                     *)
(*                                                                         *)
(* Text is modelled as a sequence of one-character strings so that         *)
(* upper(), lower(), strip(), slicing and the substring test `in` are      *)
(* computed the way Python computes them.                                  *)
(***************************************************************************)
EXTENDS Integers, Sequences, FiniteSets, TLC

(***************************************************************************)
(* Bounds of the model (not program constants).                            *)
(***************************************************************************)
MaxWords == 2

(***************************************************************************)
(* Python str helpers                                                      *)
(***************************************************************************)
LowerAlpha == <<"a","b","c","d","e","f","g","h","i","j","k","l","m","n","o","p","q","r","s","t","u","v","w","x","y","z">>
UpperAlpha == <<"A","B","C","D","E","F","G","H","I","J","K","L","M","N","O","P","Q","R","S","T","U","V","W","X","Y","Z">>

AlphaIndex(alpha, c) == CHOOSE i \in 1..Len(alpha) : alpha[i] = c

\* the letters str.lower() and str.upper() change, with their images
ToLower == [c \in {UpperAlpha[i] : i \in 1..Len(UpperAlpha)} |->
               LowerAlpha[AlphaIndex(UpperAlpha, c)]]
ToUpper == [c \in {LowerAlpha[i] : i \in 1..Len(LowerAlpha)} |->
               UpperAlpha[AlphaIndex(LowerAlpha, c)]]

lower_char(c) == IF c \in DOMAIN ToLower THEN ToLower[c] ELSE c

upper_char(c) == IF c \in DOMAIN ToUpper THEN ToUpper[c] ELSE c

\* str.lower()
str_lower(s) == [i \in 1..Len(s) |-> lower_char(s[i])]

\* str.upper()
str_upper(s) == [i \in 1..Len(s) |-> upper_char(s[i])]

\* `sub in s` for two str
str_in(sub, s) ==
    \E i \in 0..(Len(s) - Len(sub)) : SubSeq(s, i + 1, i + Len(sub)) = sub

\* s[:n]
str_prefix(s, n) == SubSeq(s, 1, IF Len(s) < n THEN Len(s) ELSE n)

IsSpace(c) == c = " "

\* str.strip(): drop leading and trailing whitespace
str_strip(s) ==
    IF \A i \in 1..Len(s) : IsSpace(s[i]) THEN <<>>
    ELSE LET lo == CHOOSE i \in 1..Len(s) :
                       ~IsSpace(s[i]) /\ \A j \in 1..(i - 1) : IsSpace(s[j])
             hi == CHOOSE i \in 1..Len(s) :
                       ~IsSpace(s[i]) /\ \A j \in (i + 1)..Len(s) : IsSpace(s[j])
         IN  SubSeq(s, lo, hi)

\* " ".join(words)
RECURSIVE join_words(_)
join_words(ws) ==
    IF Len(ws) = 0 THEN <<>>
    ELSE IF Len(ws) = 1 THEN ws[1]
    ELSE ws[1] \o <<" ">> \o join_words(Tail(ws))

(***************************************************************************)
(* Keywords of _extract_race_control_events                                *)
(***************************************************************************)
KW_RED_FLAG == <<"R","E","D"," ","F","L","A","G">>
KW_SAFETY_CAR == <<"S","A","F","E","T","Y"," ","C","A","R">>
KW_VIRTUAL == <<"V","I","R","T","U","A","L">>
KW_VIRTUAL_SAFETY_CAR == <<"V","I","R","T","U","A","L"," ","S","A","F","E","T","Y"," ","C","A","R">>
KW_VSC == <<"V","S","C">>
KW_YELLOW_FLAG == <<"Y","E","L","L","O","W"," ","F","L","A","G">>
KW_YELLOW == <<"Y","E","L","L","O","W">>
KW_FLAG == <<"F","L","A","G">>
KW_RAIN == <<"R","A","I","N">>
KW_WET == <<"W","E","T">>
KW_TRACK_CONDITIONS == <<"T","R","A","C","K"," ","C","O","N","D","I","T","I","O","N","S">>
KW_WEATHER == <<"W","E","A","T","H","E","R">>
KW_INCIDENT == <<"I","N","C","I","D","E","N","T">>
KW_COLLISION == <<"C","O","L","L","I","S","I","O","N">>
KW_CRASH == <<"C","R","A","S","H">>
KW_OFF_TRACK == <<"O","F","F"," ","T","R","A","C","K">>
KW_DEBRIS == <<"D","E","B","R","I","S">>
KW_INVESTIGATION == <<"I","N","V","E","S","T","I","G","A","T","I","O","N">>
KW_PENALTY == <<"P","E","N","A","L","T","Y">>
KW_PIT_LANE_OPEN == <<"P","I","T"," ","L","A","N","E"," ","O","P","E","N">>
KW_PIT_LANE_CLOSED == <<"P","I","T"," ","L","A","N","E"," ","C","L","O","S","E","D">>
KW_GREEN_LIGHT == <<"G","R","E","E","N"," ","L","I","G","H","T">>
KW_GRID_PENALTY == <<"G","R","I","D"," ","P","E","N","A","L","T","Y">>
KW_TYRE_RULE == <<"T","Y","R","E"," ","R","U","L","E">>

WeatherWords == {KW_RAIN, KW_WET, KW_TRACK_CONDITIONS, KW_WEATHER}
IncidentWords == {KW_INCIDENT, KW_COLLISION, KW_CRASH, KW_OFF_TRACK, KW_DEBRIS,
                  KW_INVESTIGATION, KW_PENALTY}
InfoKeepWords == {KW_PIT_LANE_OPEN, KW_PIT_LANE_CLOSED, KW_GREEN_LIGHT,
                  KW_GRID_PENALTY, KW_TYRE_RULE}

(***************************************************************************)
(* TimelineEventType (rag/schemas.py): the values of the enum              *)
(***************************************************************************)
TimelineEventType ==
    {"SC", "VSC", "RED", "YELLOW", "PIT", "WEATHER", "INCIDENT", "PACE", "INFO"}

\* the cascade with its first two branches exchanged
ClassifyAsScBeforeRed(message) ==
    LET message_text == str_upper(message)
    IN  IF str_in(KW_SAFETY_CAR, message_text) /\ ~str_in(KW_VIRTUAL, message_text)
        THEN "SC"
        ELSE IF str_in(KW_RED_FLAG, message_text) THEN "RED"
        ELSE IF str_in(KW_VIRTUAL_SAFETY_CAR, message_text) \/ str_in(KW_VSC, message_text)
        THEN "VSC"
        ELSE IF str_in(KW_YELLOW_FLAG, message_text)
                \/ (str_in(KW_YELLOW, message_text) /\ str_in(KW_FLAG, message_text))
        THEN "YELLOW"
        ELSE IF \E word \in WeatherWords : str_in(word, message_text) THEN "WEATHER"
        ELSE IF \E word \in IncidentWords : str_in(word, message_text) THEN "INCIDENT"
        ELSE "INFO"

\* The if/elif cascade of _extract_race_control_events on msg["message"]
classify_message(message) ==
    LET message_text == str_upper(message)
    IN  IF str_in(KW_RED_FLAG, message_text) THEN "RED"
        ELSE IF str_in(KW_SAFETY_CAR, message_text) /\ ~str_in(KW_VIRTUAL, message_text)
        THEN "SC"
        ELSE IF str_in(KW_VIRTUAL_SAFETY_CAR, message_text) \/ str_in(KW_VSC, message_text)
        THEN "VSC"
        ELSE IF str_in(KW_YELLOW_FLAG, message_text)
                \/ (str_in(KW_YELLOW, message_text) /\ str_in(KW_FLAG, message_text))
        THEN "YELLOW"
        ELSE IF \E word \in WeatherWords : str_in(word, message_text) THEN "WEATHER"
        ELSE IF \E word \in IncidentWords : str_in(word, message_text) THEN "INCIDENT"
        ELSE "INFO"

\* the allow-list looked up in the message as written
InfoKeptAsWritten(message) ==
    \E word \in InfoKeepWords : str_in(word, message)

\* An INFO message is skipped unless it mentions one of the allow-listed phrases
info_is_kept(message) ==
    \E word \in InfoKeepWords : str_in(word, str_upper(message))

(***************************************************************************)
(* Values of the model                                                     *)
(***************************************************************************)
\* Python None where a str is expected, and None / 0 where a number is
NONE == <<"<None>">>
NoYear == 0
NoLap == -1

T_GRAND_PRIX_SP == <<" ","g","r","a","n","d"," ","p","r","i","x">>
T_GRAND_PRIX == <<"g","r","a","n","d"," ","p","r","i","x">>
T_UNKNOWN == <<"u","n","k","n","o","w","n">>
GP_MONACO == <<"M","o","n","a","c","o"," ","G","r","a","n","d"," ","P","r","i","x">>
GP_ITALIAN == <<"I","t","a","l","i","a","n"," ","G","r","a","n","d"," ","P","r","i","x">>
GP_MONZA == <<"M","o","n","z","a">>
GP_UNKNOWN == <<"U","n","k","n","o","w","n">>
L_MONZA == <<"M","o","n","z","a">>
L_ITALY == <<"I","t","a","l","y">>
L_MONACO == <<"M","o","n","a","c","o">>
L_MONTE == <<"M","o","n","t","e"," ","C","a","r","l","o">>
ST_RACE == <<"R","A","C","E">>
ST_QUALIFYING == <<"Q","U","A","L","I","F","Y","I","N","G">>
ST_SPRINT == <<"S","P","R","I","N","T">>
API_RACE == <<"R","a","c","e">>
API_QUALIFYING == <<"Q","u","a","l","i","f","y","i","n","g">>

(***************************************************************************)
(* More Python str / re helpers used by OpenF1Client.search_sessions       *)
(***************************************************************************)
\* str.replace(old, ""): drop every occurrence of old, scanning left to right
RECURSIVE str_remove(_, _)
str_remove(s, old) ==
    IF Len(s) < Len(old) \/ Len(old) = 0 THEN s
    ELSE IF SubSeq(s, 1, Len(old)) = old
         THEN str_remove(SubSeq(s, Len(old) + 1, Len(s)), old)
         ELSE <<s[1]>> \o str_remove(Tail(s), old)

\* \w of Python's re on the characters the model uses
IsWordChar(c) ==
    \/ \E i \in 1..Len(LowerAlpha) : LowerAlpha[i] = c
    \/ \E i \in 1..Len(UpperAlpha) : UpperAlpha[i] = c
    \/ c \in {"0","1","2","3","4","5","6","7","8","9","_"}

\* length of the longest run of characters satisfying Test that starts at s[from]
RECURSIVE RunLen(_, _, _)
RunLen(s, from, wordRun) ==
    IF from > Len(s) THEN 0
    ELSE IF (wordRun /\ IsWordChar(s[from])) \/ (~wordRun /\ IsSpace(s[from]))
         THEN 1 + RunLen(s, from + 1, wordRun)
         ELSE 0

\* re.search(r'^(\w+(?:\s+\w+)?)', s).group(1), or NONE when there is no match
re_first_two_words(s) ==
    LET w1 == RunLen(s, 1, TRUE)
        sp == RunLen(s, w1 + 1, FALSE)
        w2 == RunLen(s, w1 + sp + 1, TRUE)
    IN  IF w1 = 0 THEN NONE
        ELSE IF sp > 0 /\ w2 > 0 THEN SubSeq(s, 1, w1 + sp + w2)
        ELSE SubSeq(s, 1, w1)

\* [x for x in seq if Test(x)] for a set of wanted elements
RECURSIVE SelectIn(_, _)
SelectIn(seq, wanted) ==
    IF seq = <<>> THEN <<>>
    ELSE (IF Head(seq) \in wanted THEN <<Head(seq)>> ELSE <<>>)
         \o SelectIn(Tail(seq), wanted)

Range(seq) == {seq[i] : i \in 1..Len(seq)}

\* TLC evaluates the argument of an operator again at every place the operator
\* uses it; TheOnly({F(x) : x \in {e}}) evaluates e once and is F(e).
TheOnly(S) == CHOOSE x \in S : TRUE

(***************************************************************************)
(* OpenF1Client (openf1/api.py)                                            *)
(***************************************************************************)
retry_max_attempts == 3

\* _request: the attempts of the retry loop; `failures` attempts fail with a
\* RequestException before one succeeds. Raises when every attempt failed.
request_raises(failures) == failures >= retry_max_attempts

\* the query tokens search_sessions builds from gp_name, in priority order
query_tokens(gp_name) ==
    LET gp_lower == str_lower(gp_name)
        without_gp == str_strip(str_remove(str_remove(gp_lower, T_GRAND_PRIX_SP),
                                           T_GRAND_PRIX))
        country_token == re_first_two_words(gp_lower)
    IN  <<gp_lower>>
        \o (IF without_gp # <<>> /\ without_gp # gp_lower THEN <<without_gp>> ELSE <<>>)
        \o (IF country_token # NONE /\ str_strip(country_token) # <<>>
               /\ str_strip(country_token) # gp_lower
            THEN <<str_strip(country_token)>> ELSE <<>>)

token_matches(query_token, s) ==
    \/ str_in(query_token, str_lower(s.location))
    \/ str_in(query_token, str_lower(s.country_name))
    \/ str_in(query_token, str_lower(s.circuit_short_name))

candidate_sessions(sessions, query_token) ==
    SelectIn(sessions, {s \in Range(sessions) : token_matches(query_token, s)})

\* the for loop over query_tokens: the candidates of the first token that has
\* any, or <<>> when no token has (filtered_sessions stays None)
RECURSIVE first_token_match(_, _)
first_token_match(sessions, tokens) ==
    IF tokens = <<>> THEN <<>>
    ELSE IF candidate_sessions(sessions, Head(tokens)) # <<>>
         THEN candidate_sessions(sessions, Head(tokens))
         ELSE first_token_match(sessions, Tail(tokens))

\* "Filter by gp_name if provided": when no token matches, sessions is left as
\* it was (every session of the year)
filter_by_gp(sessions, gp_name) ==
    IF gp_name # NONE /\ gp_name # <<>> /\ str_lower(gp_name) # T_UNKNOWN
    THEN LET filtered_sessions == first_token_match(sessions, query_tokens(gp_name))
         IN  IF filtered_sessions # <<>> THEN filtered_sessions ELSE sessions
    ELSE sessions

\* "Filter by session_type if provided"
filter_by_type(sessions, session_type) ==
    IF session_type # NONE /\ session_type # <<>>
    THEN SelectIn(sessions, {s \in Range(sessions) :
                     str_lower(s.session_type) = str_lower(session_type)})
    ELSE sessions

\* s.get("location", "").lower() raises AttributeError on a JSON null
gp_filter_raises(sessions, gp_name) ==
    /\ gp_name # NONE /\ gp_name # <<>> /\ str_lower(gp_name) # T_UNKNOWN
    /\ \E s \in Range(sessions) : s.location = NONE

\* The try block of search_sessions on the outcome of
\* self._request("sessions", {"year": year}): request_raised = the request
\* raised, all_sessions = the JSON list it returned otherwise.
search_sessions_try(request_raised, all_sessions, gp_name, session_type) ==
    IF request_raised THEN [raised |-> TRUE, value |-> <<>>]
    ELSE IF all_sessions = <<>> THEN [raised |-> FALSE, value |-> <<>>]
    ELSE IF gp_filter_raises(all_sessions, gp_name) THEN [raised |-> TRUE, value |-> <<>>]
    ELSE [raised |-> FALSE,
          value |-> filter_by_type(filter_by_gp(all_sessions, gp_name), session_type)]

\* search_sessions without its except clause
SearchSessionsNoExcept(request_raised, all_sessions, gp_name, session_type) ==
    search_sessions_try(request_raised, all_sessions, gp_name, session_type)

\* search_sessions: `except Exception: return []` around the try block
search_sessions(request_raised, all_sessions, gp_name, session_type) ==
    LET r == search_sessions_try(request_raised, all_sessions, gp_name, session_type)
    IN  IF r.raised THEN [raised |-> FALSE, value |-> <<>>] ELSE r

\* get_race_control_messages, get_laps, get_stints, get_pit_stops, get_drivers,
\* get_weather, get_position, get_intervals, get_overtakes, get_team_radio,
\* get_session_result, get_starting_grid share one body: data is what
\* self._request returned ("list": a JSON array, "dict": a non-empty JSON
\* object, "other": {} / null / a scalar), records the array or object.
get_collection(request_raised, shape, records) ==
    IF request_raised THEN [raised |-> FALSE, value |-> <<>>]
    ELSE IF shape = "list" THEN [raised |-> FALSE, value |-> records]
    ELSE IF shape = "dict" /\ records # <<>>
         THEN [raised |-> FALSE, value |-> <<records[1]>>]
    ELSE [raised |-> FALSE, value |-> <<>>]

(***************************************************************************)
(* TimelineItem (rag/schemas.py) and the events TimelineBuilder creates    *)
(***************************************************************************)
\* TimelineItem(lap, event_type, description, pdf_citations, openf1_evidence,
\* impacted_drivers, impact_summary, confidence); title and timestamp are
\* carried along by the code and read by no operation modelled here.
TimelineItem(lap, event_type, description, pdf_citations, openf1_evidence, impacted_drivers, impact_summary, confidence) ==
    [lap |-> lap, event_type |-> event_type, description |-> description,
     pdf_citations |-> pdf_citations, openf1_evidence |-> openf1_evidence,
     impacted_drivers |-> impacted_drivers, impact_summary |-> impact_summary,
     confidence |-> confidence]

\* impact_summary: the fixed text of the f-string and the names it lists
Summary(text, names, more_names) ==
    [text |-> text, names |-> names, more_names |-> more_names]
NoSummary == Summary("", <<>>, <<>>)

OpenF1Evidence(evidence_type, payload) ==
    [evidence_type |-> evidence_type, payload |-> payload]

\* TimelineEventType(event_type_str): the member whose value is the string, or
\* "ValueError" when the enum has no such value
EnumValues ==
    << <<"S","C">>, <<"V","S","C">>, <<"R","E","D">>, <<"Y","E","L","L","O","W">>,
       <<"P","I","T">>, <<"W","E","A","T","H","E","R">>,
       <<"I","N","C","I","D","E","N","T">>, <<"P","A","C","E">>, <<"I","N","F","O">> >>
EnumNames ==
    <<"SC", "VSC", "RED", "YELLOW", "PIT", "WEATHER", "INCIDENT", "PACE", "INFO">>

enum_lookup(event_type_str) ==
    IF \E i \in 1..Len(EnumValues) : EnumValues[i] = event_type_str
    THEN EnumNames[CHOOSE i \in 1..Len(EnumValues) : EnumValues[i] = event_type_str]
    ELSE "ValueError"

\* retriever.retrieve(search_query, top_k=3)
top_k == 3

\* the citations of one event: PDFCitation(chunk_id=...) for each chunk the
\* retriever returned; n_chunks = 0 also stands for a retrieval that raised
\* (the except clause leaves pdf_citations empty)
pdf_citations_for(event_data) ==
    [k \in 1..event_data.n_chunks |-> [chunk_id |-> <<event_data.search_query, k>>]]

\* _event_to_timeline_item: event_data is one element of the parsed JSON array
\*   malformed : the element is not an object, or a field fails validation
\*               (the conversion raises)
\*   event_type: the kind tag (a str; NONE when the key is absent)
event_to_timeline_item_raises(event_data) == event_data.malformed

event_to_timeline_item(event_data) ==
    LET event_type_str == str_upper(IF event_data.event_type = NONE
                                    THEN <<"I","N","F","O">>
                                    ELSE event_data.event_type)
        event_type == IF enum_lookup(event_type_str) = "ValueError" THEN "INFO"
                      ELSE enum_lookup(event_type_str)
        pdf_citations == pdf_citations_for(event_data)
    IN  TimelineItem(event_data.lap, event_type, event_data.description,
                     pdf_citations, <<>>, <<>>, NoSummary,
                     IF pdf_citations # <<>> THEN "Medium" ELSE "Low")

\* the conversion loop of extract_pdf_events: elements whose conversion raises
\* are skipped
RECURSIVE convert_events(_)
convert_events(events_data) ==
    IF events_data = <<>> THEN <<>>
    ELSE (IF event_to_timeline_item_raises(Head(events_data)) THEN <<>>
          ELSE <<event_to_timeline_item(Head(events_data))>>)
         \o convert_events(Tail(events_data))

\* extract_pdf_events with a placeholder event for an answer that is no array
ExtractPdfEventsWithPlaceholder(llm) ==
    IF llm.outcome = "array" THEN convert_events(llm.events_data)
    ELSE <<TimelineItem(NoLap, "INFO", <<>>, <<>>, <<>>, <<>>, NoSummary, "Low")>>

\* extract_pdf_events: llm is the outcome of self.llm.generate and of
\* _parse_json_events on its text
\*   outcome = "raise"   : generate raised
\*             "nojson"  : the text holds no "[" or no "]"
\*             "badjson" : json.loads failed on the bracketed text
\*             "array"   : events_data is the parsed array
extract_pdf_events(llm) ==
    IF llm.outcome = "array" THEN convert_events(llm.events_data) ELSE <<>>

(***************************************************************************)
(* _extract_race_control_events, the loop over rc_messages                 *)
(***************************************************************************)
rc_item(msg) ==
    TimelineItem(msg.lap, classify_message(msg.message), msg.message, <<>>,
                 <<OpenF1Evidence("race_control", msg)>>, <<>>, NoSummary, "High")

\* flag_counts after the loop: how many messages each branch took
flag_counts_of(rc_messages) ==
    [k \in {"SC", "VSC", "RED", "YELLOW", "WEATHER", "INCIDENT", "INFO"} |->
        Cardinality({i \in 1..Len(rc_messages) :
                        classify_message(rc_messages[i].message) = k})]

RECURSIVE race_control_items(_)
race_control_items(rc_messages) ==
    IF rc_messages = <<>> THEN <<>>
    ELSE LET msg == Head(rc_messages)
         IN  (IF classify_message(msg.message) = "INFO" /\ ~info_is_kept(msg.message)
              THEN <<>> ELSE <<rc_item(msg)>>)
             \o race_control_items(Tail(rc_messages))

(***************************************************************************)
(* merge_timelines                                                         *)
(***************************************************************************)
\* desc[:50]
DescPrefixLen == 50
\* the lap an item without a lap sorts at
NoLapSortKey == 999999

\* normalize_description without the [:50] slice
NormalizeWholeDescription(desc) ==
    IF desc = <<>> THEN <<>> ELSE str_strip(str_lower(desc))

\* normalize_description: desc[:50].lower().strip()
normalize_description(desc) ==
    IF desc = <<>> THEN <<>>
    ELSE str_strip(str_lower(str_prefix(desc, DescPrefixLen)))

\* key = (item.lap, item.event_type.value, normalize_description(item.description))
merge_key(item) ==
    <<item.lap, item.event_type, normalize_description(item.description)>>

\* position of key in the dict (a sequence of [key, item] in insertion order), 0 if absent
dict_index(merged, key) ==
    IF \E i \in 1..Len(merged) : merged[i].key = key
    THEN CHOOSE i \in 1..Len(merged) : merged[i].key = key
    ELSE 0

\* merged[key] = item for one OpenF1 item
put_openf1_item(merged, item, key) ==
    IF dict_index(merged, key) = 0 THEN Append(merged, [key |-> key, item |-> item])
    ELSE [merged EXCEPT ![dict_index(merged, key)].item = item]

\* "Add OpenF1 items first"
RECURSIVE add_openf1_items(_, _)
add_openf1_items(merged, openf1_items) ==
    IF openf1_items = <<>> THEN merged
    ELSE TheOnly({add_openf1_items(put_openf1_item(m, Head(openf1_items), key),
                                   Tail(openf1_items)) :
                     m \in {merged}, key \in {merge_key(Head(openf1_items))}})

\* the body of `if key in merged:` for one PDF item
merge_into_existing(existing, pdf_item) ==
    [existing EXCEPT
        !.pdf_citations = @ \o pdf_item.pdf_citations,
        !.openf1_evidence = @ \o pdf_item.openf1_evidence,
        !.confidence = IF pdf_item.confidence = "High" THEN "High" ELSE @]

\* put_pdf_item storing a new document event without its citations
PutPdfItemWithoutCitations(merged, pdf_item, key) ==
    IF dict_index(merged, key) = 0
    THEN Append(merged, [key |-> key, item |-> [pdf_item EXCEPT !.pdf_citations = <<>>]])
    ELSE [merged EXCEPT ![dict_index(merged, key)].item = merge_into_existing(@, pdf_item)]

\* `if key in merged: ... else: merged[key] = pdf_item` for one PDF item
put_pdf_item(merged, pdf_item, key) ==
    IF dict_index(merged, key) = 0 THEN Append(merged, [key |-> key, item |-> pdf_item])
    ELSE [merged EXCEPT ![dict_index(merged, key)].item = merge_into_existing(@, pdf_item)]

\* "Add PDF items, merging evidence if duplicate"
RECURSIVE add_pdf_items(_, _)
add_pdf_items(merged, pdf_items) ==
    IF pdf_items = <<>> THEN merged
    ELSE TheOnly({add_pdf_items(put_pdf_item(m, Head(pdf_items), key), Tail(pdf_items)) :
                     m \in {merged}, key \in {merge_key(Head(pdf_items))}})

\* Python's < on the event_type values (str comparison)
TypeOrder ==
    <<"INCIDENT", "INFO", "PACE", "PIT", "RED", "SC", "VSC", "WEATHER", "YELLOW">>
type_rank(event_type) == CHOOSE i \in 1..Len(TypeOrder) : TypeOrder[i] = event_type

\* key=lambda x: (x.lap if x.lap is not None else 999999, str(x.event_type.value))
sort_lap(item) == IF item.lap = NoLap THEN NoLapSortKey ELSE item.lap
sort_key_less(a, b) ==
    \/ sort_lap(a) < sort_lap(b)
    \/ sort_lap(a) = sort_lap(b) /\ type_rank(a.event_type) < type_rank(b.event_type)

\* sorted(): stable, so items with equal keys keep their order. sorts_before:
\* items[i] comes before items[j] in the result.
sorts_before(items, i, j) ==
    \/ sort_key_less(items[i], items[j])
    \/ ~sort_key_less(items[j], items[i]) /\ i < j

sorted_by_key(items) ==
    [k \in 1..Len(items) |->
        items[CHOOSE i \in 1..Len(items) :
                 Cardinality({j \in 1..Len(items) : sorts_before(items, j, i)}) = k - 1]]

\* the values of the dict in insertion order
dict_values(merged) == [i \in 1..Len(merged) |-> merged[i].item]

merge_timelines(pdf_items, openf1_items) ==
    TheOnly({sorted_by_key(dict_values(merged)) :
                merged \in {add_pdf_items(add_openf1_items(<<>>, openf1_items),
                                          pdf_items)}})

(***************************************************************************)
(* compute_impact                                                          *)
(***************************************************************************)
\* lap_time_ms of a lap record that has none (JSON null / key absent)
NoTime == -1

RECURSIVE SeqSum(_)
SeqSum(xs) == IF xs = <<>> THEN 0 ELSE Head(xs) + SeqSum(Tail(xs))

\* list(dict.fromkeys(xs)): the distinct elements, first occurrences kept
first_occurrences(xs) == {i \in 1..Len(xs) : \A j \in 1..(i - 1) : xs[j] # xs[i]}
Distinct(xs) ==
    [k \in 1..Cardinality(first_occurrences(xs)) |->
        xs[CHOOSE i \in first_occurrences(xs) :
              Cardinality({j \in first_occurrences(xs) : j < i}) = k - 1]]

\* p.get("driver_name") for p in pit_data if p.get("lap") and
\* item.lap - 2 <= p.get("lap") <= item.lap + 2
sc_window == 2
RECURSIVE sc_pit_drivers(_, _)
sc_pit_drivers(pit_data, lap) ==
    IF pit_data = <<>> THEN <<>>
    ELSE LET p == Head(pit_data)
         IN  (IF p.lap # NoLap /\ p.lap # 0
                 /\ lap - sc_window <= p.lap /\ p.lap <= lap + sc_window
              THEN <<p.driver_name>> ELSE <<>>)
             \o sc_pit_drivers(Tail(pit_data), lap)

\* the SC / VSC branch; ', '.join(sorted(set(pit_drivers))) raises TypeError
\* when a pit record has no driver_name (None)
impact_sc(item, pit_data) ==
    IF pit_data = <<>> THEN [raised |-> FALSE, item |-> item]
    ELSE LET pit_drivers == sc_pit_drivers(pit_data, item.lap)
         IN  IF pit_drivers = <<>>
             THEN [raised |-> FALSE,
                   item |-> [item EXCEPT
                       !.impacted_drivers = <<>>,
                       !.impact_summary =
                           Summary("No drivers pitted during this period", <<>>, <<>>)]]
             ELSE IF NONE \in Range(pit_drivers)
             THEN [raised |-> TRUE, item |-> item]
             ELSE [raised |-> FALSE,
                   item |-> [item EXCEPT
                       !.impacted_drivers = Distinct(pit_drivers),
                       !.impact_summary = Summary("Benefited: (pitted during)",
                                                    Distinct(pit_drivers), <<>>),
                       !.confidence = "High"]]

\* lap.get("lap_time_ms") for lap in laps_data if lap.get("driver_name") == driver
\* and lap.get("lap_number") and item.lap - 1 <= lap.get("lap_number") <= item.lap + 3
pit_laps_before == 1
pit_laps_after == 3
RECURSIVE pit_lap_times(_, _, _)
pit_lap_times(laps_data, driver, lap) ==
    IF laps_data = <<>> THEN <<>>
    ELSE LET l == Head(laps_data)
         IN  (IF l.driver_name = driver /\ l.lap_number # NoLap /\ l.lap_number # 0
                 /\ lap - pit_laps_before <= l.lap_number
                 /\ l.lap_number <= lap + pit_laps_after
              THEN <<l.lap_time_ms>> ELSE <<>>)
             \o pit_lap_times(Tail(laps_data), driver, lap)

\* last_time < avg_before * 0.95 and last_time > avg_before * 1.05, with
\* avg_before = sum(times[:-1]) / len(times[:-1]), in exact arithmetic
pct_faster == 95
pct_slower == 105
driver_benefits(times) ==
    /\ Len(times) > 1
    /\ times[Len(times)] * (Len(times) - 1) * 100
         < SeqSum(SubSeq(times, 1, Len(times) - 1)) * pct_faster
driver_loses(times) ==
    /\ Len(times) > 1
    /\ ~driver_benefits(times)
    /\ times[Len(times)] * (Len(times) - 1) * 100
         > SeqSum(SubSeq(times, 1, Len(times) - 1)) * pct_slower

\* the PIT branch; sum() or < raises TypeError on a lap without lap_time_ms
impact_pit(item, laps_data, pit_data) ==
    IF pit_data # <<>> /\ laps_data # <<>>
    THEN LET pit_drivers == item.impacted_drivers
             times(d) == pit_lap_times(laps_data, d, item.lap)
             benefits == SelectIn(pit_drivers,
                                  {d \in Range(pit_drivers) : driver_benefits(times(d))})
             loses == SelectIn(pit_drivers,
                               {d \in Range(pit_drivers) : driver_loses(times(d))})
         IN  IF \E d \in Range(pit_drivers) :
                    Len(times(d)) > 1 /\ NoTime \in Range(times(d))
             THEN [raised |-> TRUE, item |-> item]
             ELSE [raised |-> FALSE,
                   item |-> [item EXCEPT
                       !.impact_summary =
                           IF benefits # <<>> \/ loses # <<>>
                           THEN Summary("Benefited: | Hurt:", benefits, loses)
                           ELSE Summary("driver(s) pitted; mixed impact", pit_drivers, <<>>),
                       !.confidence =
                           IF benefits # <<>> \/ loses # <<>> THEN "Medium" ELSE "Low"]]
    ELSE [raised |-> FALSE,
          item |-> [item EXCEPT
              !.impact_summary = Summary("driver(s) pitted; tire strategy change",
                                           item.impacted_drivers, <<>>),
              !.confidence = "High"]]

\* the body of `for item in timeline:` for one item
impact_item(item, laps_data, pit_data) ==
    IF item.lap = NoLap \/ item.lap = 0 THEN [raised |-> FALSE, item |-> item]
    ELSE IF item.event_type \in {"SC", "VSC"} THEN impact_sc(item, pit_data)
    ELSE IF item.event_type = "PIT" THEN impact_pit(item, laps_data, pit_data)
    ELSE IF item.event_type \in {"INCIDENT", "PACE"}
    THEN [raised |-> FALSE,
          item |-> IF item.impacted_drivers # <<>>
                   THEN [item EXCEPT !.impact_summary =
                                         Summary("affected", item.impacted_drivers, <<>>),
                                     !.confidence = "High"]
                   ELSE [item EXCEPT !.confidence = "Medium"]]
    ELSE IF item.impacted_drivers = <<>>
    THEN [raised |-> FALSE,
          item |-> [item EXCEPT
              !.impact_summary =
                  Summary("Track condition change; check driver strategies", <<>>, <<>>),
              !.confidence = "High"]]
    ELSE [raised |-> FALSE, item |-> item]

\* compute_impact: raised when the loop raised at some item
compute_impact(timeline, laps_data, pit_data) ==
    LET r == [i \in 1..Len(timeline) |-> impact_item(timeline[i], laps_data, pit_data)]
    IN  [raised |-> \E i \in 1..Len(timeline) : r[i].raised,
         timeline |-> [i \in 1..Len(timeline) |-> r[i].item]]

(***************************************************************************)
(* The other sub-fetches of build_openf1_timeline                          *)
(***************************************************************************)
TXT_DRIVERS_PITTED == <<" ","d","r","i","v","e","r","(","s",")"," ","p","i","t","t","e","d","."," ","D","r","i","v","e","r","s",":"," ">>
TXT_COMPOUNDS == <<"."," ","C","o","m","p","o","u","n","d","s",":"," ">>
TXT_COMMA == <<","," ">>
TXT_DOT == <<".">>
TXT_UNKNOWN == <<"U","n","k","n","o","w","n">>
TXT_DRIVER == <<"D","r","i","v","e","r"," ">>
TXT_SET_FASTEST == <<" ","s","e","t"," ","f","a","s","t","e","s","t"," ","l","a","p"," ","o","n"," ","l","a","p"," ">>
TXT_ADVANCED == <<" ","a","d","v","a","n","c","e","d"," ","f","r","o","m"," ","P">>
TXT_TO_P == <<" ","t","o"," ","P">>
TXT_RAIN_STARTED == <<"R","a","i","n","f","a","l","l"," ","d","e","t","e","c","t","e","d",".">>
TXT_RAIN_STOPPED == <<"R","a","i","n","f","a","l","l"," ","s","t","o","p","p","e","d",".">>
D_VER == <<"V","E","R">>
D_HAM == <<"H","A","M">>
C_SOFT == <<"S","O","F","T">>
C_HARD == <<"H","A","R","D">>

DigitChars == <<"0","1","2","3","4","5","6","7","8","9">>

\* str(n) for n >= 0
RECURSIVE int_str(_)
int_str(n) ==
    IF n < 10 THEN <<DigitChars[n + 1]>>
    ELSE int_str(n \div 10) \o <<DigitChars[(n % 10) + 1]>>

\* sep.join(parts)
RECURSIVE str_join(_, _)
str_join(sep, parts) ==
    IF parts = <<>> THEN <<>>
    ELSE IF Len(parts) = 1 THEN parts[1]
    ELSE parts[1] \o sep \o str_join(sep, Tail(parts))

\* the keys of a defaultdict(list) filled in the order of xs: distinct, in
\* order of first appearance
first_seen(xs) == Distinct(xs)

\* pit.get("lap") for the pits that have a lap (`if lap:`)
RECURSIVE pit_laps(_)
pit_laps(pit_stops) ==
    IF pit_stops = <<>> THEN <<>>
    ELSE (IF Head(pit_stops).lap # NoLap /\ Head(pit_stops).lap # 0
          THEN <<Head(pit_stops).lap>> ELSE <<>>) \o pit_laps(Tail(pit_stops))

\* p.get("driver_name", "Unknown"), p.get("compound", "Unknown")
pit_driver(p) == IF p.driver_name = NONE THEN TXT_UNKNOWN ELSE p.driver_name
pit_compound(p) == IF p.compound = NONE THEN TXT_UNKNOWN ELSE p.compound

\* pit_item naming the compound of every stop, one per record
PitItemCompoundPerStop(lap, pits, set_order) ==
    LET drivers == [i \in 1..Len(pits) |-> pit_driver(pits[i])]
        compounds == [i \in 1..Len(pits) |-> pit_compound(pits[i])]
    IN  TimelineItem(lap, "PIT",
            int_str(Len(pits)) \o TXT_DRIVERS_PITTED \o str_join(TXT_COMMA, drivers)
              \o TXT_COMPOUNDS \o str_join(TXT_COMMA, compounds) \o TXT_DOT,
            <<>>,
            [i \in 1..Len(pits) |-> OpenF1Evidence("pit_stop", pits[i])],
            drivers, NoSummary, "High")

\* one item per lap of pit_by_lap; set_order lists the compounds in the
\* iteration order of set(compounds), which Python leaves to the str hash
pit_item(lap, pits, set_order) ==
    LET drivers == [i \in 1..Len(pits) |-> pit_driver(pits[i])]
        compounds == [i \in 1..Len(pits) |-> pit_compound(pits[i])]
    IN  TimelineItem(lap, "PIT",
            int_str(Len(pits)) \o TXT_DRIVERS_PITTED \o str_join(TXT_COMMA, drivers)
              \o TXT_COMPOUNDS
              \o str_join(TXT_COMMA, SelectIn(set_order, Range(compounds)))
              \o TXT_DOT,
            <<>>,
            [i \in 1..Len(pits) |-> OpenF1Evidence("pit_stop", pits[i])],
            drivers, NoSummary, "High")

\* _extract_pit_events, from pit_stops on
pit_items(pit_stops, set_order) ==
    LET laps == first_seen(pit_laps(pit_stops))
    IN  [k \in 1..Len(laps) |->
            pit_item(laps[k],
                     SelectIn(pit_stops, {p \in Range(pit_stops) : p.lap = laps[k]}),
                     set_order)]

\* The members of the TimelineEventType enum the sub-fetches name. Reading a
\* member the enum does not define (STRATEGY, OVERTAKE, GRID, RESULT) raises
\* AttributeError inside the sub-fetch's try block.
EnumMembers ==
    {"SAFETY_CAR", "VIRTUAL_SC", "RED_FLAG", "YELLOW_FLAG", "PIT_STOP", "WEATHER",
     "INCIDENT", "PACE_CHANGE", "INFO"}

\* _extract_stint_events, from stints on: the first driver with more than one
\* stint reaches TimelineEventType.STRATEGY before any item is appended
stint_items(stints) ==
    IF "STRATEGY" \in EnumMembers
    THEN LET drivers == first_seen([i \in 1..Len(stints) |-> stints[i].driver_name])
             of(d) == SelectIn(stints, {x \in Range(stints) : x.driver_name = d})
             changes(d) ==
                 [i \in 1..(Len(of(d)) - 1) |->
                     TimelineItem(of(d)[i + 1].lap_start, "STRATEGY",
                         d \o <<" ">> \o of(d)[i].compound \o <<" ">> \o of(d)[i + 1].compound,
                         <<>>, <<OpenF1Evidence("stint_change", of(d)[i + 1])>>, <<d>>,
                         Summary("switched tires", <<d>>, <<>>), "High")]
             all[k \in 0..Len(drivers)] ==
                 IF k = 0 THEN <<>> ELSE all[k - 1] \o changes(drivers[k])
         IN  all[Len(drivers)]
    ELSE <<>>

\* lap=999 of the item _extract_session_results builds ("Put at end of timeline")
session_result_lap == 999

\* _extract_overtake_events, _extract_starting_grid, _extract_session_results:
\* with a non-empty collection the item's event_type (OVERTAKE, GRID, RESULT)
\* raises AttributeError before the first item is appended
undefined_member_items(member, records) ==
    IF member \in EnumMembers
    THEN [i \in 1..(IF records = <<>> THEN 0 ELSE 1) |->
             TimelineItem(NoLap, member, <<>>, <<>>,
                          <<OpenF1Evidence(member, records)>>, <<>>, NoSummary, "High")]
    ELSE <<>>

\* lap.get("driver_name", f"Driver {lap.get('driver_number')}")
lap_driver(l) ==
    IF l.driver_name = NONE THEN TXT_DRIVER \o int_str(l.driver_number) ELSE l.driver_name

\* fastest_by_driver after the loop over laps: the first lap of the driver with
\* the smallest lap_time_ms, laps without a lap time skipped
fastest_lap(laps, driver) ==
    LET mine == SelectIn(laps, {l \in Range(laps) :
                    lap_driver(l) = driver /\ l.lap_time_ms # NoTime /\ l.lap_time_ms # 0})
        best == CHOOSE i \in 1..Len(mine) :
                    /\ \A j \in 1..Len(mine) : mine[i].lap_time_ms <= mine[j].lap_time_ms
                    /\ \A j \in 1..(i - 1) : mine[j].lap_time_ms > mine[i].lap_time_ms
    IN  mine[best]

\* _extract_lap_markers, from laps on (the lap time in the description is left
\* out: f"{driver_name} set fastest lap on lap {lap_num} (...)")
lap_marker_items(laps) ==
    LET timed == SelectIn(laps, {l \in Range(laps) :
                     l.lap_time_ms # NoTime /\ l.lap_time_ms # 0})
        drivers == first_seen([i \in 1..Len(timed) |-> lap_driver(timed[i])])
        item(d) ==
            LET lap_data == fastest_lap(laps, d)
            IN  IF lap_data.lap_number # NoLap /\ lap_data.lap_number # 0
                THEN <<TimelineItem(lap_data.lap_number, "PACE",
                           d \o TXT_SET_FASTEST \o int_str(lap_data.lap_number),
                           <<>>, <<OpenF1Evidence("fastest_lap", lap_data)>>, <<d>>,
                           Summary("achieved fastest lap pace", <<d>>, <<>>), "High")>>
                ELSE <<>>
        all[k \in 0..Len(drivers)] ==
            IF k = 0 THEN <<>> ELSE all[k - 1] \o item(drivers[k])
    IN  all[Len(drivers)]

\* sorted(by_lap.keys()): the populated lap numbers, ascending
sorted_ints(S) ==
    [k \in 1..Cardinality(S) |->
        CHOOSE x \in S : Cardinality({y \in S : y < x}) = k - 1]

\* {lap.get("driver_number"): lap.get("position") for lap in by_lap[n] if position}:
\* the position of the driver's last record of lap n that has one, 0 if none
position_at(laps, n, driver_number) ==
    LET recs == SelectIn(laps, {l \in Range(laps) :
                    l.lap_number = n /\ l.driver_number = driver_number /\ l.position # 0})
    IN  IF recs = <<>> THEN 0 ELSE recs[Len(recs)].position

\* _extract_position_changes, from laps on. A record without driver_name makes
\* impacted_drivers=[None] fail validation: the except clause returns the items
\* appended so far.
position_change_items(laps) ==
    LET lap_numbers == sorted_ints({l.lap_number : l \in
                           {x \in Range(laps) : x.lap_number # NoLap /\ x.lap_number # 0}})
        next_drivers(n) ==
            first_seen(LET at == SelectIn(laps, {l \in Range(laps) :
                                     l.lap_number = n /\ l.position # 0})
                       IN  [i \in 1..Len(at) |-> at[i].driver_number])
        name_at(n, dn) ==
            LET at == SelectIn(laps, {l \in Range(laps) :
                          l.lap_number = n /\ l.driver_number = dn})
            IN  at[1].driver_name
        gain(i, dn) ==
            LET cur == position_at(laps, lap_numbers[i], dn)
                nxt == position_at(laps, lap_numbers[i + 1], dn)
            IN  IF cur # 0 /\ nxt # 0 /\ cur > nxt
                THEN <<TimelineItem(lap_numbers[i + 1], "INCIDENT",
                           name_at(lap_numbers[i + 1], dn) \o TXT_ADVANCED \o int_str(cur)
                             \o TXT_TO_P \o int_str(nxt),
                           <<>>,
                           <<OpenF1Evidence("position_change",
                                 [driver |-> dn, from |-> cur, to |-> nxt,
                                  lap |-> lap_numbers[i + 1]])>>,
                           <<name_at(lap_numbers[i + 1], dn)>>,
                           Summary("gained a position",
                                   <<name_at(lap_numbers[i + 1], dn)>>, <<>>), "High")>>
                ELSE <<>>
        pair(i) ==
            LET ds == next_drivers(lap_numbers[i + 1])
                acc[k \in 0..Len(ds)] == IF k = 0 THEN <<>> ELSE acc[k - 1] \o gain(i, ds[k])
            IN  acc[Len(ds)]
        all[i \in 0..(Len(lap_numbers) - 1)] ==
            IF i = 0 THEN <<>> ELSE all[i - 1] \o pair(i)
        items == IF lap_numbers = <<>> THEN <<>> ELSE all[Len(lap_numbers) - 1]
        bad == {k \in 1..Len(items) : items[k].impacted_drivers = <<NONE>>}
    IN  IF bad = {} THEN items
        ELSE SubSeq(items, 1, (CHOOSE k \in bad : \A j \in bad : k <= j) - 1)

\* _extract_weather_events, from weather_data on: rain start / stop between
\* consecutive readings (reading.get("rainfall", 0)); of the two temperatures
\* printed in the description the track temperature is kept
weather_items(weather_data) ==
    LET ev(i) ==
            IF i = 1 THEN <<>>
            ELSE IF weather_data[i].rainfall > 0 /\ weather_data[i - 1].rainfall = 0
            THEN <<TimelineItem(NoLap, "WEATHER",
                       TXT_RAIN_STARTED \o <<" ">> \o int_str(weather_data[i].track_temperature),
                       <<>>,
                       <<OpenF1Evidence("weather", [i |-> i, reading |-> weather_data[i]])>>,
                       <<>>, Summary("Weather change may affect tire strategy", <<>>, <<>>),
                       "High")>>
            ELSE IF weather_data[i].rainfall = 0 /\ weather_data[i - 1].rainfall > 0
            THEN <<TimelineItem(NoLap, "WEATHER",
                       TXT_RAIN_STOPPED \o <<" ">> \o int_str(weather_data[i].track_temperature),
                       <<>>,
                       <<OpenF1Evidence("weather", [i |-> i, reading |-> weather_data[i]])>>,
                       <<>>, Summary("Weather change may affect tire strategy", <<>>, <<>>),
                       "High")>>
            ELSE <<>>
        all[i \in 0..Len(weather_data)] == IF i = 0 THEN <<>> ELSE all[i - 1] \o ev(i)
    IN  all[Len(weather_data)]

(***************************************************************************)
(* build_openf1_timeline                                                   *)
(***************************************************************************)
\* for alt_year in [2024, 2023, 2022]
AltYears == <<2024, 2023, 2022>>

\* The telemetry service as OpenF1Client sees it:
\*   remote.up        - FALSE: every request fails on each attempt
\*   remote.sessions  - year -> the JSON list of /sessions?year=
\*   remote.data      - session_key -> the collections of that session
sessions_of(remote, year) ==
    IF year \in DOMAIN remote.sessions THEN remote.sessions[year] ELSE <<>>

client_search(remote, year, gp_name, session_type) ==
    search_sessions(~remote.up, sessions_of(remote, year), gp_name, session_type).value

client_get(remote, endpoint, session_id) ==
    get_collection(~remote.up, "list",
                   IF session_id \in DOMAIN remote.data
                   THEN remote.data[session_id][endpoint] ELSE <<>>).value

SearchCall(year, gp_name, session_type) ==
    [method |-> "search_sessions", year |-> year, gp_name |-> gp_name,
     session_type |-> session_type, session_id |-> 0]
GetCall(endpoint, session_id) ==
    [method |-> endpoint, year |-> NoYear, gp_name |-> NONE, session_type |-> NONE,
     session_id |-> session_id]

\* session.get("session_id") or session.get("session_key")
session_id_of(session) == session.session_key

\* The common head of every _extract_* method, from the sessions its search
\* returned on: take the first session and fetch `endpoint` for it.
\* needs_drivers: the method also calls get_drivers when the collection is
\* not empty.
fetch_of_first(remote, endpoint, needs_drivers, sessions, search_call) ==
    LET found == sessions # <<>> /\ session_id_of(sessions[1]) # 0
        session_id == IF found THEN session_id_of(sessions[1]) ELSE 0
        records == IF found THEN client_get(remote, endpoint, session_id) ELSE <<>>
    IN  [records |-> records,
         calls |-> <<search_call>>
                   \o (IF found THEN <<GetCall(endpoint, session_id)>> ELSE <<>>)
                   \o (IF found /\ needs_drivers /\ records # <<>>
                       THEN <<GetCall("drivers", session_id)>> ELSE <<>>)]

\* Every _extract_* method searches the session again with
\* (year, gp_name, session_type) before it fetches.
sub_fetch(remote, endpoint, needs_drivers, year, gp_name, session_type) ==
    TheOnly({fetch_of_first(remote, endpoint, needs_drivers, sessions,
                            SearchCall(year, gp_name, session_type)) :
                sessions \in {client_search(remote, year, gp_name, session_type)}})

\* self.debug_info = {} of __init__
NoDebugInfo ==
    [has |-> FALSE, detected_year |-> NoYear, detected_gp |-> NONE,
     detected_session_type |-> NONE, session_id |-> 0, session_found |-> FALSE]

DebugInfo(year, gp_name, session_type, session_id, session_found) ==
    [has |-> TRUE, detected_year |-> year, detected_gp |-> gp_name,
     detected_session_type |-> session_type, session_id |-> session_id,
     session_found |-> session_found]

\* next((s for s in fallback_sessions if s.get('session_type','').upper() == 'RACE'),
\*      fallback_sessions[0])
race_session(fallback_sessions) ==
    LET races == SelectIn(fallback_sessions, {x \in Range(fallback_sessions) :
                     str_upper(x.session_type) = ST_RACE})
    IN  IF races # <<>> THEN races[1] ELSE fallback_sessions[1]

\* the for loop over the alternative years: the years tried, in order, up to
\* and including the first one with sessions
RECURSIVE alt_year_search(_, _, _)
alt_year_search(remote, gp_name, years) ==
    IF years = <<>> THEN [tried |-> <<>>, year |-> NoYear, sessions |-> <<>>]
    ELSE LET alt_sessions == client_search(remote, Head(years), gp_name, NONE)
         IN  IF alt_sessions # <<>>
             THEN [tried |-> <<Head(years)>>, year |-> Head(years),
                   sessions |-> alt_sessions]
             ELSE LET rest == alt_year_search(remote, gp_name, Tail(years))
                  IN  [rest EXCEPT !.tried = <<Head(years)>> \o @]

\* the list the for loop iterates; the requested year plays no part in it
alt_years(year) == AltYears

\* Session resolution of build_openf1_timeline, up to self.debug_info = {...},
\* stage by stage; each stage is given what the stages before it found.
\*   early = TRUE for the two returns that precede any client call
Resolution(early, found, year, session_id, calls) ==
    [early |-> early, found |-> found, year |-> year, session_id |-> session_id,
     calls |-> calls]

\* the alternative years, and the final listing of the year's sessions
resolve_alt_years(year, gp_name, alt, calls) ==
    LET alt_calls == [i \in 1..Len(alt.tried) |-> SearchCall(alt.tried[i], gp_name, NONE)]
    IN  IF alt.sessions # <<>>
        THEN Resolution(FALSE, TRUE, alt.year, session_id_of(alt.sessions[1]),
                        calls \o alt_calls)
        ELSE Resolution(FALSE, FALSE, year, 0,
                        calls \o alt_calls \o <<SearchCall(year, NONE, NONE)>>)

\* the search without session_type filter
resolve_without_type(remote, year, gp_name, fallback_sessions, calls) ==
    IF fallback_sessions # <<>>
    THEN Resolution(FALSE, TRUE, year, session_id_of(race_session(fallback_sessions)),
                    calls)
    ELSE resolve_alt_years(year, gp_name,
                           alt_year_search(remote, gp_name, alt_years(year)), calls)

\* the search with (year, gp_name, session_type)
resolve_with_type(remote, year, gp_name, session_type, test_sessions) ==
    IF test_sessions # <<>>
    THEN Resolution(FALSE, TRUE, year, session_id_of(test_sessions[1]),
                    <<SearchCall(year, gp_name, session_type)>>)
    ELSE resolve_without_type(remote, year, gp_name,
                              client_search(remote, year, gp_name, NONE),
                              <<SearchCall(year, gp_name, session_type),
                                SearchCall(year, gp_name, NONE)>>)

resolve_session(remote, session_metadata) ==
    IF session_metadata.year = NoYear \/ session_metadata.gp_name = NONE
       \/ session_metadata.gp_name = <<>>
       \/ str_lower(session_metadata.gp_name) = T_UNKNOWN
    THEN Resolution(TRUE, FALSE, session_metadata.year, 0, <<>>)
    ELSE resolve_with_type(remote, session_metadata.year, session_metadata.gp_name,
                           session_metadata.session_type,
                           client_search(remote, session_metadata.year,
                                         session_metadata.gp_name,
                                         session_metadata.session_type))

\* the sub-fetches with the exception of one of them leaving the build: the
\* items of the sub-fetches before the first one that raises
FetchItemsAbortOnError(rc, pit, stints, laps, weather, overtakes, grid, results, set_order) ==
    race_control_items(rc)
    \o pit_items(pit, set_order)
    \o (IF stints # <<>> /\ "STRATEGY" \notin EnumMembers THEN <<>>
        ELSE stint_items(stints)
             \o lap_marker_items(laps)
             \o position_change_items(laps)
             \o weather_items(weather)
             \o undefined_member_items("OVERTAKE", overtakes)
             \o undefined_member_items("GRID", grid)
             \o undefined_member_items("RESULT", results))

\* the nine sub-fetches of build_openf1_timeline for the resolved year, in the
\* order of the code (the laps are fetched by _extract_lap_markers and again
\* by _extract_position_changes)
fetch_items(rc, pit, stints, laps, weather, overtakes, grid, results, set_order) ==
    race_control_items(rc)
    \o pit_items(pit, set_order)
    \o stint_items(stints)
    \o lap_marker_items(laps)
    \o position_change_items(laps)
    \o weather_items(weather)
    \o undefined_member_items("OVERTAKE", overtakes)
    \o undefined_member_items("GRID", grid)
    \o undefined_member_items("RESULT", results)

\* what the nine sub-fetches return and the calls they make; each argument is
\* the outcome of one search-and-fetch
fetched_events(rc, pit, stints, laps, weather, overtakes, grid, results, set_order) ==
    [items |-> fetch_items(rc.records, pit.records, stints.records, laps.records,
                           weather.records, overtakes.records, grid.records,
                           results.records, set_order),
     calls |-> rc.calls \o pit.calls \o stints.calls \o laps.calls \o laps.calls
               \o weather.calls \o overtakes.calls \o grid.calls \o results.calls]

fetch_events(remote, year, gp_name, session_type, set_order) ==
    TheOnly({fetched_events(rc, pit, stints, laps, weather, overtakes, grid, results,
                            set_order) :
        rc \in {sub_fetch(remote, "race_control", FALSE, year, gp_name, session_type)},
        pit \in {sub_fetch(remote, "pit", FALSE, year, gp_name, session_type)},
        stints \in {sub_fetch(remote, "stints", FALSE, year, gp_name, session_type)},
        laps \in {sub_fetch(remote, "laps", FALSE, year, gp_name, session_type)},
        weather \in {sub_fetch(remote, "weather", FALSE, year, gp_name, session_type)},
        overtakes \in {sub_fetch(remote, "overtakes", TRUE, year, gp_name, session_type)},
        grid \in {sub_fetch(remote, "starting_grid", TRUE, year, gp_name, session_type)},
        results \in {sub_fetch(remote, "session_result", TRUE, year, gp_name,
                               session_type)}})

\* build_openf1_timeline from the resolution r on: the items, the debug info
\* the builder holds afterwards and the client calls made
build_after_resolution(remote, session_metadata, debug_info, set_order, r, fetched) ==
    IF r.early
    THEN [items |-> <<>>, debug_info |-> debug_info, calls |-> <<>>]
    ELSE IF ~r.found
    THEN [items |-> <<>>,
          debug_info |-> DebugInfo(r.year, session_metadata.gp_name,
                                   session_metadata.session_type, 0, FALSE),
          calls |-> r.calls]
    ELSE [items |-> fetched.items,
          debug_info |-> DebugInfo(r.year, session_metadata.gp_name,
                                   session_metadata.session_type, r.session_id, TRUE),
          calls |-> r.calls \o fetched.calls]

resolved_fetch(remote, session_metadata, set_order, r) ==
    IF r.found
    THEN fetch_events(remote, r.year, session_metadata.gp_name,
                      session_metadata.session_type, set_order)
    ELSE [items |-> <<>>, calls |-> <<>>]

build_with_resolution(remote, session_metadata, debug_info, set_order, r) ==
    TheOnly({build_after_resolution(remote, session_metadata, debug_info, set_order,
                                    r, fetched) :
                fetched \in {resolved_fetch(remote, session_metadata, set_order, r)}})

build_openf1_timeline(remote, session_metadata, debug_info, set_order) ==
    TheOnly({build_with_resolution(remote, session_metadata, debug_info, set_order, r) :
                r \in {resolve_session(remote, session_metadata)}})

\* Step 5 of build_race_timeline: sorted(list(drivers_involved)) and the
\* RaceTimeline constructor raise when an impacted driver is None
aggregate_raises(final_timeline) ==
    \E i \in 1..Len(final_timeline) : NONE \in Range(final_timeline[i].impacted_drivers)

event_counts(final_timeline) ==
    [t \in {final_timeline[i].event_type : i \in 1..Len(final_timeline)} |->
        Cardinality({i \in 1..Len(final_timeline) : final_timeline[i].event_type = t})]

\* the characters of the names, in the order of their code points
CodePointOrder ==
    <<" ">> \o DigitChars \o UpperAlpha \o <<"_">> \o LowerAlpha
code_point(c) == CHOOSE i \in 1..Len(CodePointOrder) : CodePointOrder[i] = c

\* a < b for two str
str_less(a, b) ==
    \E n \in 0..Len(a) :
        /\ n <= Len(b)
        /\ \A i \in 1..n : a[i] = b[i]
        /\ \/ n = Len(a) /\ n < Len(b)
           \/ n < Len(a) /\ n < Len(b) /\ code_point(a[n + 1]) < code_point(b[n + 1])

\* sorted(list(names)) for a set of str
sorted_strs(names) ==
    [k \in 1..Cardinality(names) |->
        CHOOSE x \in names : Cardinality({y \in names : str_less(y, x)}) = k - 1]

\* the drivers in the order the loop first meets them, as often as it meets them
DriversAsMet(final_timeline) ==
    LET all[k \in 0..Len(final_timeline)] ==
            IF k = 0 THEN <<>> ELSE all[k - 1] \o final_timeline[k].impacted_drivers
    IN  all[Len(final_timeline)]

\* drivers_involved.update(item.impacted_drivers) for every item, then
\* sorted(list(drivers_involved))
drivers_involved(final_timeline) ==
    sorted_strs(UNION {Range(final_timeline[i].impacted_drivers) :
                          i \in 1..Len(final_timeline)})

RaceTimeline(session_info, timeline_items, debug_info) ==
    [status |-> "returned", session_info |-> session_info,
     timeline_items |-> timeline_items, event_counts |-> event_counts(timeline_items),
     drivers_involved |-> drivers_involved(timeline_items), debug_info |-> debug_info]

(***************************************************************************)
(* State                                                                   *)
(***************************************************************************)
VARIABLES
    pc,               \* where the running operation stands
    session_metadata, \* argument of build_race_timeline
    llm,              \* the LLM answer of the current build, as parsed
    laps_data,        \* argument of build_race_timeline
    pit_data,         \* argument of build_race_timeline
    remote,           \* the telemetry service behind the client
    set_order,        \* iteration order of set() for this process
    debug_info,       \* TimelineBuilder.debug_info
    pdf_items,        \* local of build_race_timeline / argument of merge_timelines
    openf1_items,     \* local of build_race_timeline / argument of merge_timelines
    timeline,         \* merged_timeline, then final_timeline
    calls,            \* the client calls made during the current build
    result,           \* what the last operation returned or raised
    rc_messages,      \* what get_race_control_messages returned
    flag_counts,      \* local flag_counts of _extract_race_control_events
    local_cache,      \* OpenF1Client.local_cache: cache_key -> data
    cl_last,          \* the last client method call and its outcome
    now,              \* time.time(), in hours
    vector_store,     \* InMemoryVectorStore.chunks, in insertion order
    doc_id,           \* argument of build_race_timeline
    chunking          \* the last call of semantic_chunk and what it returned

vars ==
    <<pc, session_metadata, llm, laps_data, pit_data, remote, set_order, debug_info,
      pdf_items, openf1_items, timeline, calls, result, rc_messages, flag_counts,
      local_cache, cl_last, now, vector_store, doc_id, chunking>>

\* the variables outside the timeline builder and the client's methods
side_vars == <<now, vector_store, doc_id, chunking>>

NoMetadata == [year |-> NoYear, gp_name |-> NONE, session_type |-> NONE]
NoLlm == [outcome |-> "none", events_data |-> <<>>]
NoRemote == [up |-> FALSE, sessions |-> <<>>, data |-> <<>>]
NoResult == [status |-> "none"]
NoFlagCounts == flag_counts_of(<<>>)
NoClientCall == [method |-> "none"]
NoChunking == [text |-> <<>>, chunk_size |-> 0, chunk_overlap |-> 0, chunks |-> <<>>]

\* the variables of the builder at rest
BuilderIdle ==
    /\ session_metadata = NoMetadata /\ llm = NoLlm
    /\ laps_data = <<>> /\ pit_data = <<>>
    /\ set_order = <<C_SOFT, C_HARD, TXT_UNKNOWN>>
    /\ debug_info = NoDebugInfo
    /\ pdf_items = <<>> /\ openf1_items = <<>> /\ timeline = <<>>
    /\ calls = <<>> /\ result = NoResult
\* the variables of the race-control extraction at rest
RaceControlIdle == rc_messages = <<>> /\ flag_counts = NoFlagCounts
\* the variables of the client at rest
ClientIdle == local_cache = <<>> /\ cl_last = NoClientCall
\* the clock, the vector store and the chunker at rest
SideIdle == now = 0 /\ vector_store = <<>> /\ doc_id = NONE /\ chunking = NoChunking

(***************************************************************************)
(* Race-control extraction on its own: _extract_race_control_events from   *)
(* the messages the client returned                                        *)
(***************************************************************************)
P_RED_FLAG_LC == <<"r","e","d"," ","f","l","a","g">>
P_SAFETY_CAR_MC == <<"S","a","f","e","t","y"," ","C","a","r">>
P_VIRTUAL_SC_LC == <<"v","i","r","t","u","a","l"," ","s","a","f","e","t","y"," ","c","a","r">>
P_YELLOW_FLAG_LC == <<"y","e","l","l","o","w"," ","f","l","a","g">>
P_DRS == <<"D","R","S"," ","E","N","A","B","L","E","D">>
P_GREEN_LIGHT_MC == <<"G","r","e","e","n"," ","L","i","g","h","t">>

\* phrases race-control messages are made of
Phrases ==
    {KW_RED_FLAG, P_RED_FLAG_LC, P_SAFETY_CAR_MC, KW_VIRTUAL, P_VIRTUAL_SC_LC,
     KW_VSC, KW_YELLOW, KW_FLAG, P_YELLOW_FLAG_LC, KW_RAIN, KW_INCIDENT,
     KW_PIT_LANE_OPEN, P_DRS, P_GREEN_LIGHT_MC}

RECURSIVE PhraseSeqs(_)
PhraseSeqs(n) ==
    IF n = 0 THEN {<<>>}
    ELSE PhraseSeqs(n - 1)
         \cup {Append(ws, p) : ws \in {x \in PhraseSeqs(n - 1) : Len(x) = n - 1},
                               p \in Phrases}

\* messages of one to MaxWords phrases separated by blanks
Messages == {join_words(ws) : ws \in PhraseSeqs(MaxWords) \ {<<>>}}

RcMessage(message, lap) == [message |-> message, lap |-> lap]

InitRaceControl ==
    /\ SideIdle
    /\ pc = "rc_fetched"
    /\ \E m \in Messages, lap \in {12, NoLap}, more \in BOOLEAN :
          rc_messages = <<RcMessage(m, lap)>>
                        \o (IF more THEN <<RcMessage(KW_YELLOW_FLAG, 5)>> ELSE <<>>)
    /\ flag_counts = NoFlagCounts
    /\ remote = NoRemote
    /\ BuilderIdle /\ ClientIdle

\* the loop over rc_messages and the return of the items
ExtractRaceControlEvents ==
    /\ pc = "rc_fetched"
    /\ flag_counts' = flag_counts_of(rc_messages)
    /\ openf1_items' = race_control_items(rc_messages)
    /\ pc' = "rc_done"
    /\ UNCHANGED side_vars
    /\ UNCHANGED <<session_metadata, llm, laps_data, pit_data, remote, set_order,
                   debug_info, pdf_items, timeline, calls, result, rc_messages,
                   local_cache, cl_last>>

NextRaceControl == ExtractRaceControlEvents

SpecRaceControl == InitRaceControl /\ [][NextRaceControl]_vars

\* The rule list of the classification, on the lower-cased text: the kind of
\* the first rule that matches.
LC(word) == str_lower(word)
RuleMatches(rule, text) ==
    CASE rule = "RED" -> str_in(LC(KW_RED_FLAG), text)
      [] rule = "SC" -> str_in(LC(KW_SAFETY_CAR), text) /\ ~str_in(LC(KW_VIRTUAL), text)
      [] rule = "VSC" -> str_in(LC(KW_VIRTUAL_SAFETY_CAR), text) \/ str_in(LC(KW_VSC), text)
      [] rule = "YELLOW" -> \/ str_in(LC(KW_YELLOW_FLAG), text)
                            \/ str_in(LC(KW_YELLOW), text) /\ str_in(LC(KW_FLAG), text)
      [] rule = "WEATHER" -> \E w \in WeatherWords : str_in(LC(w), text)
      [] rule = "INCIDENT" -> \E w \in IncidentWords : str_in(LC(w), text)
      [] rule = "INFO" -> TRUE
PriorityOrder == <<"RED", "SC", "VSC", "YELLOW", "WEATHER", "INCIDENT", "INFO">>
FirstMatchingRule(text) ==
    PriorityOrder[CHOOSE i \in 1..Len(PriorityOrder) :
                     /\ RuleMatches(PriorityOrder[i], text)
                     /\ \A j \in 1..(i - 1) : ~RuleMatches(PriorityOrder[j], text)]

MaxPdfItems == 2
MaxOpenF1Items == 2

\* a description of exactly DescPrefixLen characters, and one that differs
\* from it in the last of them
DescStem == <<"S","a","f","e","t","y"," ","c","a","r"," ","d","e","p","l","o","y","e","d"," ","a","f","t","e","r"," ","t","h","e"," ","c","r","a","s","h"," ","a","t"," ","t","u","r","n"," ","s","e","v","e","n","!">>
DescStemOther == <<"S","a","f","e","t","y"," ","c","a","r"," ","d","e","p","l","o","y","e","d"," ","a","f","t","e","r"," ","t","h","e"," ","c","r","a","s","h"," ","a","t"," ","t","u","r","n"," ","s","e","v","e","n","?">>
DescTailDebris == <<" ","a","n","d"," ","d","e","b","r","i","s">>
DescTailTrack == <<" ","o","n"," ","t","r","a","c","k">>
TAG_SC == <<"S","C">>
TAG_SC_LC == <<"s","c">>
TAG_INFO == <<"I","N","F","O">>

\* one element of the array the LLM answered
EventData(lap, event_type, description, n_chunks) ==
    [lap |-> lap, event_type |-> event_type, description |-> description,
     search_query |-> description, n_chunks |-> n_chunks, malformed |-> FALSE]

\* document events: the same 50 first characters with different tails and
\* letter case, another lap, another 50th character, and a 50th character
\* that is a blank
DocEvents ==
    {EventData(15, TAG_SC_LC, DescStem \o DescTailDebris, 1),
     EventData(15, TAG_SC, str_upper(DescStem) \o DescTailTrack, 0),
     EventData(16, TAG_SC, DescStem \o DescTailDebris, 2),
     EventData(15, TAG_SC, DescStemOther \o DescTailDebris, 1),
     EventData(NoLap, TAG_INFO, SubSeq(DescStem, 1, DescPrefixLen - 1), 0),
     EventData(NoLap, NONE, SubSeq(DescStem, 1, DescPrefixLen - 1) \o DescTailTrack, 1)}

\* race-control messages: two of lap 15 with the same 50 first characters,
\* and one of lap 16
TelemetryMessages ==
    {RcMessage(str_upper(DescStem), 15),
     RcMessage(DescStem \o DescTailTrack, 15),
     RcMessage(DescStem, 16)}

RECURSIVE SeqsUpTo(_, _)
SeqsUpTo(S, n) ==
    IF n = 0 THEN {<<>>}
    ELSE SeqsUpTo(S, n - 1)
         \cup {Append(q, x) : q \in {y \in SeqsUpTo(S, n - 1) : Len(y) = n - 1}, x \in S}

InitMerge ==
    /\ SideIdle
    /\ pc = "merge_ready"
    /\ \E events_data \in SeqsUpTo(DocEvents, MaxPdfItems) :
          pdf_items = convert_events(events_data)
    /\ \E msgs \in SeqsUpTo(TelemetryMessages, MaxOpenF1Items) :
          openf1_items = race_control_items(msgs)
    /\ timeline = <<>>
    /\ session_metadata = NoMetadata /\ llm = NoLlm
    /\ laps_data = <<>> /\ pit_data = <<>>
    /\ set_order = <<C_SOFT, C_HARD, TXT_UNKNOWN>>
    /\ debug_info = NoDebugInfo /\ calls = <<>> /\ result = NoResult
    /\ remote = NoRemote
    /\ RaceControlIdle /\ ClientIdle

\* merge_timelines(pdf_items, openf1_items)
MergeTimelines ==
    /\ pc = "merge_ready"
    /\ timeline' = merge_timelines(pdf_items, openf1_items)
    /\ pc' = "merged"
    /\ UNCHANGED side_vars
    /\ UNCHANGED <<session_metadata, llm, laps_data, pit_data, remote, set_order,
                   debug_info, pdf_items, openf1_items, calls, result, rc_messages,
                   flag_counts, local_cache, cl_last>>

NextMerge == MergeTimelines

SpecMerge == InitMerge /\ [][NextMerge]_vars

\* the merge key as the events' fields give it: lap, kind, and the first 50
\* characters of the description lower-cased and trimmed
First50(desc) == [i \in 1..(IF Len(desc) < 50 THEN Len(desc) ELSE 50) |-> desc[i]]
KeyOf(item) == <<item.lap, item.event_type, str_strip(str_lower(First50(item.description)))>>
MergeInputs == Range(pdf_items) \cup Range(openf1_items)

\* C9: merge_timelines returns exactly one event per distinct merge key of its
\* inputs: inputs with the same (lap, kind, first 50 characters lower-cased
\* and trimmed) collapse to one event even when they differ after character
\* 50, and inputs with different laps stay apart.
C9_OneEventPerKey ==
    pc = "merged" =>
        LET out_keys == [i \in 1..Len(timeline) |-> KeyOf(timeline[i])]
        IN  /\ Range(out_keys) = {KeyOf(x) : x \in MergeInputs}
            /\ \A i, j \in 1..Len(timeline) : out_keys[i] = out_keys[j] => i = j
            /\ \A x, y \in MergeInputs :
                  x.lap # y.lap =>
                      \E i, j \in 1..Len(timeline) :
                          i # j /\ out_keys[i] = KeyOf(x) /\ out_keys[j] = KeyOf(y)

\* two document events whose descriptions differ only after character 50 were
\* merged into one event, next to an event of another lap
C9_Witness ==
    /\ pc = "merged"
    /\ Len(pdf_items) = 2 /\ Len(openf1_items) = 1
    /\ pdf_items[1].description # pdf_items[2].description
    /\ Len(pdf_items[1].description) > 50
    /\ KeyOf(pdf_items[1]) = KeyOf(pdf_items[2])
    /\ openf1_items[1].lap # pdf_items[1].lap
    /\ Len(timeline) = 2

ConfidenceRank(c) == CASE c = "Low" -> 1 [] c = "Medium" -> 2 [] c = "High" -> 3
HigherConfidence(a, b) == IF ConfidenceRank(a) >= ConfidenceRank(b) THEN a ELSE b

\* C10: for a document event and a telemetry event with the same merge key,
\* the merged entry of that key holds every citation and every evidence
\* record of both events, and the higher of their two confidence levels.
C10_UnionAndHigherConfidence ==
    pc = "merged" =>
        \A d \in Range(pdf_items), t \in Range(openf1_items) :
            KeyOf(d) = KeyOf(t) =>
                \E i \in 1..Len(timeline) :
                    /\ KeyOf(timeline[i]) = KeyOf(d)
                    /\ Range(d.pdf_citations) \cup Range(t.pdf_citations)
                           \subseteq Range(timeline[i].pdf_citations)
                    /\ Range(d.openf1_evidence) \cup Range(t.openf1_evidence)
                           \subseteq Range(timeline[i].openf1_evidence)
                    /\ ConfidenceRank(timeline[i].confidence)
                           >= ConfidenceRank(HigherConfidence(d.confidence, t.confidence))

\* a Medium document event with one citation was merged with the only
\* telemetry event of its key: one event, one citation, one evidence record, High
C10_Witness ==
    /\ pc = "merged"
    /\ Len(pdf_items) = 1 /\ Len(openf1_items) = 1
    /\ KeyOf(pdf_items[1]) = KeyOf(openf1_items[1])
    /\ pdf_items[1].confidence = "Medium" /\ Len(pdf_items[1].pdf_citations) = 1
    /\ Len(timeline) = 1
    /\ Len(timeline[1].pdf_citations) = 1 /\ Len(timeline[1].openf1_evidence) = 1
    /\ timeline[1].confidence = "High"

(***************************************************************************)
(* OpenF1Client on its own: search_sessions and the collection methods     *)
(* over _request and its local cache                                       *)
(***************************************************************************)
\* a record of /sessions
Session(session_key, location, country_name, circuit_short_name, session_type) ==
    [session_key |-> session_key, location |-> location, country_name |-> country_name,
     circuit_short_name |-> circuit_short_name, session_type |-> session_type]

S_MONZA_Q == Session(9101, L_MONZA, L_ITALY, L_MONZA, API_QUALIFYING)
S_MONZA_R == Session(9102, L_MONZA, L_ITALY, L_MONZA, API_RACE)
S_MONACO_R == Session(9201, L_MONACO, L_MONACO, L_MONTE, API_RACE)
\* a record whose location is a JSON null
S_NULL_LOCATION == Session(9301, NONE, L_ITALY, L_MONZA, API_RACE)

NoData ==
    [race_control |-> <<>>, pit |-> <<>>, stints |-> <<>>, laps |-> <<>>,
     weather |-> <<>>, overtakes |-> <<>>, starting_grid |-> <<>>,
     session_result |-> <<>>, drivers |-> <<>>]

MSG_VSC == <<"V","I","R","T","U","A","L"," ","S","A","F","E","T","Y"," ","C","A","R"," ","D","E","P","L","O","Y","E","D">>
MSG_SC == <<"S","A","F","E","T","Y"," ","C","A","R"," ","D","E","P","L","O","Y","E","D">>
MSG_YELLOW == <<"Y","E","L","L","O","W"," ","F","L","A","G"," ","S","E","C","T","O","R"," ","2">>

ClientRemotes ==
    {[up |-> TRUE,
      sessions |-> (2024 :> <<S_MONZA_Q, S_MONZA_R, S_MONACO_R>>),
      data |-> (9102 :> [NoData EXCEPT !.race_control =
                            <<RcMessage(MSG_SC, 15), RcMessage(MSG_YELLOW, 5)>>])],
     [up |-> TRUE,
      sessions |-> (2024 :> <<S_MONACO_R, S_NULL_LOCATION>>),
      data |-> (9201 :> [NoData EXCEPT !.race_control = <<RcMessage(MSG_VSC, 12)>>])]}

ClientYears == {2024, 2025}
ClientGpNames == {GP_MONACO, GP_ITALIAN, GP_UNKNOWN, NONE}
ClientSessionTypes == {ST_QUALIFYING, NONE}
ClientSessionIds == {9102}

\* cache_key: the endpoint and the parameters
SessionsKey(year) == <<"sessions", year>>
CollectionKey(endpoint, session_id) == <<endpoint, session_id>>

\* _request: the entry of cache_key is returned when there is one; otherwise
\* `failures` attempts fail before the answer `fresh` arrives, which is cached.
\* Raises when every attempt failed.
request(cache, cache_key, failures, fresh) ==
    IF cache_key \in DOMAIN cache
    THEN [raised |-> FALSE, data |-> cache[cache_key], cache |-> cache]
    ELSE IF request_raises(failures)
    THEN [raised |-> TRUE, data |-> <<>>, cache |-> cache]
    ELSE [raised |-> FALSE, data |-> fresh,
          cache |-> [k \in DOMAIN cache \cup {cache_key} |->
                        IF k = cache_key THEN fresh ELSE cache[k]]]

InitClient ==
    /\ SideIdle
    /\ pc = "client"
    /\ remote \in ClientRemotes
    /\ local_cache = <<>>
    /\ cl_last = NoClientCall
    /\ BuilderIdle /\ RaceControlIdle

\* client.search_sessions(year, gp_name, session_type)
SearchSessions ==
    /\ pc = "client"
    /\ \E year \in ClientYears, gp_name \in ClientGpNames,
          session_type \in ClientSessionTypes, failures \in 0..retry_max_attempts :
          LET r == request(local_cache, SessionsKey(year), failures,
                           sessions_of(remote, year))
              t == search_sessions_try(r.raised, r.data, gp_name, session_type)
              ret == search_sessions(r.raised, r.data, gp_name, session_type)
          IN  /\ local_cache' = r.cache
              /\ cl_last' = [method |-> "search_sessions", year |-> year,
                             gp_name |-> gp_name, session_type |-> session_type,
                             all_sessions |-> r.data, request_raised |-> r.raised,
                             failed |-> t.raised, raised |-> ret.raised,
                             value |-> ret.value]
    /\ UNCHANGED side_vars
    /\ UNCHANGED <<pc, session_metadata, llm, laps_data, pit_data, remote, set_order,
                   debug_info, pdf_items, openf1_items, timeline, calls, result,
                   rc_messages, flag_counts>>

\* client.get_race_control_messages(session_id), and the methods that share
\* its body; shape is the JSON type the service answers with
GetCollection ==
    /\ pc = "client"
    /\ \E session_id \in ClientSessionIds, failures \in 0..retry_max_attempts,
          shape \in {"list", "dict", "other"} :
          LET records == IF session_id \in DOMAIN remote.data
                         THEN remote.data[session_id].race_control ELSE <<>>
              r == request(local_cache, CollectionKey("race_control", session_id),
                           failures, [shape |-> shape, records |-> records])
              ret == get_collection(r.raised,
                                    IF r.raised THEN "other" ELSE r.data.shape,
                                    IF r.raised THEN <<>> ELSE r.data.records)
          IN  /\ local_cache' = r.cache
              /\ cl_last' = [method |-> "get_race_control_messages",
                             session_id |-> session_id,
                             shape |-> IF r.raised THEN "other" ELSE r.data.shape,
                             request_raised |-> r.raised, failed |-> r.raised,
                             raised |-> ret.raised, value |-> ret.value]
    /\ UNCHANGED side_vars
    /\ UNCHANGED <<pc, session_metadata, llm, laps_data, pit_data, remote, set_order,
                   debug_info, pdf_items, openf1_items, timeline, calls, result,
                   rc_messages, flag_counts>>

\* 24 hours pass for one cache entry: _request no longer returns it
CacheEntryExpires ==
    /\ pc = "client"
    /\ \E k \in DOMAIN local_cache :
          local_cache' = [j \in DOMAIN local_cache \ {k} |-> local_cache[j]]
    /\ UNCHANGED side_vars
    /\ UNCHANGED <<pc, session_metadata, llm, laps_data, pit_data, remote, set_order,
                   debug_info, pdf_items, openf1_items, timeline, calls, result,
                   rc_messages, flag_counts, cl_last>>

NextClient == SearchSessions \/ GetCollection \/ CacheEntryExpires

SpecClient == InitClient /\ [][NextClient]_vars

\* C6: search_sessions and the collection methods return a list and never
\* raise; when the request failed on every attempt, or the method's body
\* raised anything else, the list is empty.
C6_ClientNeverRaises ==
    cl_last.method # "none" =>
        /\ ~cl_last.raised
        /\ DOMAIN cl_last.value = 1..Len(cl_last.value)
        /\ cl_last.failed => cl_last.value = <<>>

\* a search whose request failed on every attempt, or whose filter met a null
\* location, has returned
C6_Witness ==
    /\ cl_last.method = "search_sessions"
    /\ cl_last.failed /\ ~cl_last.request_raised
    /\ cl_last.all_sessions # <<>>
    /\ cl_last.value = <<>>

GpFilterApplies(gp_name) ==
    gp_name # NONE /\ gp_name # <<>> /\ str_lower(gp_name) # T_UNKNOWN

\* C7: with an event name, search_sessions returns only sessions whose
\* location, country or circuit contains one of the query tokens, and an
\* empty list when no session of the year matches any token.
C7_OnlyTokenMatches ==
    (cl_last.method = "search_sessions" /\ ~cl_last.failed
       /\ GpFilterApplies(cl_last.gp_name)) =>
        LET tokens == Range(query_tokens(cl_last.gp_name))
            matches(s) == \E tok \in tokens : token_matches(tok, s)
        IN  /\ \A s \in Range(cl_last.value) : matches(s)
            /\ (\A s \in Range(cl_last.all_sessions) : ~matches(s))
                   => cl_last.value = <<>>

\* a search for an event none of the year's sessions matches has returned
\* sessions
C7_Witness ==
    /\ cl_last.method = "search_sessions" /\ ~cl_last.failed
    /\ cl_last.gp_name = GP_ITALIAN /\ cl_last.session_type = NONE
    /\ \A s \in Range(cl_last.all_sessions), tok \in Range(query_tokens(GP_ITALIAN)) :
           ~token_matches(tok, s)
    /\ Len(cl_last.value) = 3

(***************************************************************************)
(* TimelineBuilder.build_race_timeline, called again and again on one      *)
(* builder                                                                 *)
(***************************************************************************)
MaxLlmEvents == 2

DESC_SC == <<"S","a","f","e","t","y"," ","c","a","r"," ","d","e","p","l","o","y","e","d">>
DESC_CRASH == <<"C","r","a","s","h"," ","a","t"," ","t","u","r","n"," ","3">>
TAG_CRASH == <<"C","R","A","S","H">>

Pit(lap, driver_name, compound) ==
    [lap |-> lap, driver_name |-> driver_name, compound |-> compound]
Stint(driver_name, lap_start, compound) ==
    [driver_name |-> driver_name, lap_start |-> lap_start, compound |-> compound]
Lap(driver_name, driver_number, lap_number, lap_time_ms, position) ==
    [driver_name |-> driver_name, driver_number |-> driver_number,
     lap_number |-> lap_number, lap_time_ms |-> lap_time_ms, position |-> position]
Weather(rainfall, track_temperature) ==
    [rainfall |-> rainfall, track_temperature |-> track_temperature]

RaceLaps ==
    <<Lap(D_VER, 1, 15, 90000, 2), Lap(D_HAM, 44, 15, 91000, 1),
      Lap(D_VER, 1, 16, 89000, 1), Lap(D_HAM, 44, 16, 92000, 2)>>

\* the collections of a race: a repeated yellow flag, a safety car, a message
\* that is dropped, pit stops of one lap, a rain start
MonzaRaceData ==
    [race_control |-> <<RcMessage(P_DRS, 3), RcMessage(MSG_YELLOW, 5),
                        RcMessage(MSG_YELLOW, 5), RcMessage(MSG_SC, 15)>>,
     pit |-> <<Pit(16, D_VER, C_SOFT), Pit(16, D_HAM, C_HARD), Pit(30, NONE, NONE)>>,
     stints |-> <<Stint(D_VER, 1, C_SOFT), Stint(D_VER, 17, C_HARD)>>,
     laps |-> RaceLaps,
     weather |-> <<Weather(0, 30), Weather(1, 28)>>,
     overtakes |-> <<[lap |-> 16]>>,
     starting_grid |-> <<[position |-> 1]>>,
     session_result |-> <<[position |-> 1]>>,
     drivers |-> <<[driver_number |-> 1, name_acronym |-> D_VER]>>]

MonacoRaceData ==
    [NoData EXCEPT !.race_control = <<RcMessage(MSG_VSC, 12)>>,
                   !.pit = <<Pit(13, D_VER, C_SOFT)>>]

SessionData == (9101 :> NoData) @@ (9102 :> MonzaRaceData) @@ (9201 :> MonacoRaceData)

\* the service: the season it has the sessions of, and whether it answers
PipelineRemotes ==
    {[up |-> TRUE, sessions |-> (2024 :> <<S_MONZA_Q, S_MONZA_R, S_MONACO_R>>),
      data |-> SessionData],
     [up |-> TRUE, sessions |-> (2025 :> <<S_MONACO_R>>), data |-> SessionData],
     [up |-> FALSE, sessions |-> (2024 :> <<S_MONZA_Q, S_MONZA_R, S_MONACO_R>>),
      data |-> SessionData]}

SetOrders == {<<C_SOFT, C_HARD, TXT_UNKNOWN>>, <<TXT_UNKNOWN, C_HARD, C_SOFT>>}

Metadata(year, gp_name, session_type) ==
    [year |-> year, gp_name |-> gp_name, session_type |-> session_type]

\* session_metadata of the calls
Metadatas ==
    {Metadata(2024, GP_MONACO, ST_RACE), Metadata(2024, GP_ITALIAN, ST_RACE),
     Metadata(2024, GP_MONZA, ST_QUALIFYING), Metadata(2024, GP_MONACO, ST_QUALIFYING),
     Metadata(2024, GP_MONZA, ST_SPRINT),
     Metadata(2025, GP_MONACO, ST_RACE), Metadata(2026, GP_MONACO, ST_RACE),
     Metadata(2022, GP_MONACO, ST_RACE),
     Metadata(2024, GP_UNKNOWN, ST_RACE), Metadata(2024, NONE, ST_RACE),
     Metadata(NoYear, GP_MONACO, ST_RACE)}

\* (laps_data, pit_data) of the calls: absent, complete, a pit stop without
\* driver_name, laps without lap_time_ms
ImpactArgs ==
    {<< <<>>, <<>> >>,
     <<RaceLaps, <<Pit(14, D_VER, C_SOFT)>> >>,
     <<RaceLaps, <<Pit(14, NONE, C_SOFT)>> >>,
     << <<Lap(D_VER, 1, 15, NoTime, 2), Lap(D_VER, 1, 16, NoTime, 1)>>,
        <<Pit(16, D_VER, C_SOFT)>> >>}

\* elements of the array the LLM answers: an event the retriever finds a chunk
\* for, one with an unknown kind tag and no chunk, one that is not an object
LlmEvents ==
    {EventData(15, TAG_SC_LC, DESC_SC, 1),
     EventData(20, TAG_CRASH, DESC_CRASH, 0),
     [EventData(NoLap, NONE, <<>>, 0) EXCEPT !.malformed = TRUE]}

LlmAnswers ==
    {[outcome |-> o, events_data |-> <<>>] : o \in {"raise", "nojson", "badjson"}}
    \cup {[outcome |-> "array", events_data |-> e] : e \in SeqsUpTo(LlmEvents, MaxLlmEvents)}

Init ==
    /\ SideIdle
    /\ pc = "idle"
    /\ remote \in PipelineRemotes
    /\ set_order \in SetOrders
    /\ session_metadata = NoMetadata /\ llm = NoLlm
    /\ laps_data = <<>> /\ pit_data = <<>>
    /\ debug_info = NoDebugInfo
    /\ pdf_items = <<>> /\ openf1_items = <<>> /\ timeline = <<>>
    /\ calls = <<>> /\ result = NoResult
    /\ RaceControlIdle /\ ClientIdle

\* build_race_timeline(doc_id, openf1_client, retriever, session_metadata,
\* laps_data, pit_data) is called
StartBuild ==
    /\ pc = "idle"
    /\ \E m \in Metadatas, a \in ImpactArgs :
          /\ session_metadata' = m
          /\ laps_data' = a[1]
          /\ pit_data' = a[2]
    /\ llm' = NoLlm
    /\ pdf_items' = <<>> /\ openf1_items' = <<>> /\ timeline' = <<>>
    /\ calls' = <<>> /\ result' = NoResult
    /\ pc' = "extract_pdf_events"
    /\ UNCHANGED side_vars
    /\ UNCHANGED <<remote, set_order, debug_info, rc_messages, flag_counts,
                   local_cache, cl_last>>

\* Step 1: pdf_items = self.extract_pdf_events(doc_id, session_metadata)
ExtractPdfEvents ==
    /\ pc = "extract_pdf_events"
    /\ \E answer \in LlmAnswers :
          /\ llm' = answer
          /\ pdf_items' = extract_pdf_events(answer)
    /\ pc' = "build_openf1_timeline"
    /\ UNCHANGED side_vars
    /\ UNCHANGED <<session_metadata, laps_data, pit_data, remote, set_order,
                   debug_info, openf1_items, timeline, calls, result, rc_messages,
                   flag_counts, local_cache, cl_last>>

\* Step 2: openf1_items = self.build_openf1_timeline(openf1_client, session_metadata)
BuildOpenF1Timeline ==
    /\ pc = "build_openf1_timeline"
    /\ \E r \in {build_openf1_timeline(remote, session_metadata, debug_info, set_order)} :
          /\ openf1_items' = r.items
          /\ debug_info' = r.debug_info
          /\ calls' = r.calls
    /\ pc' = "merge_timelines"
    /\ UNCHANGED side_vars
    /\ UNCHANGED <<session_metadata, llm, laps_data, pit_data, remote, set_order,
                   pdf_items, timeline, result, rc_messages, flag_counts,
                   local_cache, cl_last>>

\* Steps 3 to 5 and the return: merge_timelines, compute_impact, the
\* statistics and RaceTimeline(...); an exception of compute_impact or of the
\* constructor leaves build_race_timeline
FinishBuild ==
    /\ pc = "merge_timelines"
    /\ \E merged_timeline \in {merge_timelines(pdf_items, openf1_items)} :
       \E impact \in {compute_impact(merged_timeline, laps_data, pit_data)} :
          /\ timeline' = impact.timeline
          /\ result' = IF impact.raised \/ aggregate_raises(impact.timeline)
                       THEN [status |-> "raised"]
                       ELSE RaceTimeline(session_metadata, impact.timeline, debug_info)
    /\ pc' = "idle"
    /\ UNCHANGED side_vars
    /\ UNCHANGED <<session_metadata, llm, laps_data, pit_data, remote, set_order,
                   debug_info, pdf_items, openf1_items, calls, rc_messages,
                   flag_counts, local_cache, cl_last>>

Next == StartBuild \/ ExtractPdfEvents \/ BuildOpenF1Timeline \/ FinishBuild

Spec == Init /\ [][Next]_vars

\* a call of build_race_timeline has returned
Returned == pc = "idle" /\ result.status = "returned"

\* the running or last call went through session resolution and found a session
SessionResolved == calls # <<>> /\ debug_info.has /\ debug_info.session_found

EvidenceCount(item) == Len(item.pdf_citations) + Len(item.openf1_evidence)

\* C1: when build_race_timeline resolves a session, every event of the
\* returned timeline has at least one document citation or at least one
\* telemetry evidence record.
C1_EveryEventHasEvidence ==
    (Returned /\ SessionResolved) =>
        \A i \in 1..Len(result.timeline_items) : EvidenceCount(result.timeline_items[i]) >= 1

\* a session was resolved and the returned timeline holds the document event
\* the retriever found no chunk for
C1_Witness ==
    /\ Returned /\ SessionResolved
    /\ session_metadata = Metadata(2024, GP_MONACO, ST_RACE)
    /\ \E i \in 1..Len(result.timeline_items) :
          /\ result.timeline_items[i].description = DESC_CRASH
          /\ EvidenceCount(result.timeline_items[i]) = 0

\* C2: build_race_timeline always returns a RaceTimeline and never raises,
\* whatever the metadata, the LLM answer, the client's results and the
\* laps_data / pit_data arguments.
C2_AlwaysReturns ==
    (pc = "idle" /\ session_metadata # NoMetadata) => result.status = "returned"

\* a call given a pit stop without driver_name, two laps around a safety car
\* period of the timeline, has ended in an exception
C2_Witness ==
    /\ pc = "idle" /\ result.status = "raised"
    /\ \E i \in 1..Len(pit_data) : pit_data[i].driver_name = NONE
    /\ \E i \in 1..Len(timeline) :
          /\ timeline[i].event_type \in {"SC", "VSC"}
          /\ timeline[i].lap # NoLap

\* the event name is missing or "unknown" in any case
EventNameRejected(gp_name) ==
    gp_name = NONE \/ gp_name = <<>> \/ str_lower(gp_name) = T_UNKNOWN

\* C3: called with an event name that is missing or "unknown", the returned
\* timeline has zero events, its diagnostics carry session_found = false, and
\* the build makes no telemetry-client call.
C3_UnknownEventIsRejected ==
    (Returned /\ EventNameRejected(session_metadata.gp_name)) =>
        /\ result.timeline_items = <<>>
        /\ result.debug_info.has /\ ~result.debug_info.session_found
        /\ calls = <<>>

\* a call with the event name "unknown" made no client call and returned a
\* timeline with a document event and diagnostics without session_found
C3_Witness ==
    /\ Returned /\ session_metadata.gp_name = GP_UNKNOWN
    /\ calls = <<>>
    /\ result.timeline_items # <<>>
    /\ ~result.debug_info.has

\* C4: the diagnostics returned with a timeline describe that call: they
\* contain a session_found flag, the event of the call's metadata and the year
\* the call resolved, and nothing left over from an earlier build.
C4_DiagnosticsOfThisCall ==
    Returned =>
        /\ result.debug_info.has
        /\ result.debug_info.detected_gp = session_metadata.gp_name
        /\ \/ result.debug_info.detected_year = session_metadata.year
           \/ /\ result.debug_info.session_found
              /\ result.debug_info.detected_year \in Range(alt_years(session_metadata.year))

\* a later call on the builder returned the diagnostics of an earlier call
C4_Witness ==
    /\ Returned /\ calls = <<>>
    /\ result.debug_info.has /\ result.debug_info.session_found
    /\ result.debug_info.detected_gp # session_metadata.gp_name

\* the searches of stage 4 among the client calls of the build: those after
\* the first two searches that name the event and no session type
StageFourCalls ==
    {i \in 3..Len(calls) : /\ calls[i].method = "search_sessions"
                           /\ calls[i].gp_name = session_metadata.gp_name
                           /\ calls[i].session_type = NONE}

\* stage 4 is reached: the searches of the requested year found nothing
StageFourReached ==
    /\ pc \in {"merge_timelines", "idle"} /\ calls # <<>>
    /\ client_search(remote, session_metadata.year, session_metadata.gp_name,
                     session_metadata.session_type) = <<>>
    /\ client_search(remote, session_metadata.year, session_metadata.gp_name, NONE) = <<>>

\* C5: stage 4 tries year-1, year-2, ... in this order and adopts the first
\* year whose search is not empty; when the event exists one year earlier, the
\* resolved year is year-1.
C5_FallbackYearsCountDown ==
    StageFourReached =>
        /\ \A i \in StageFourCalls : calls[i].year = session_metadata.year - (i - 2)
        /\ client_search(remote, session_metadata.year - 1, session_metadata.gp_name,
                         NONE) # <<>>
              => /\ debug_info.session_found
                 /\ debug_info.detected_year = session_metadata.year - 1

\* asked for 2026 with the event held in 2025 only, the build searched 2024,
\* 2023 and 2022 and found no session
C5_Witness ==
    /\ StageFourReached
    /\ session_metadata = Metadata(2026, GP_MONACO, ST_RACE)
    /\ client_search(remote, 2025, GP_MONACO, NONE) # <<>>
    /\ [i \in 1..3 |-> calls[i + 2].year] = <<2024, 2023, 2022>>
    /\ debug_info.has /\ ~debug_info.session_found

(***************************************************************************)
(* merge_timelines with one empty source                                   *)
(***************************************************************************)
\* how many times x occurs in seq
Count(seq, x) == Cardinality({i \in 1..Len(seq) : seq[i] = x})

\* the same events, each as many times, all fields equal
SameEvents(a, b) == \A x \in Range(a) \cup Range(b) : Count(a, x) = Count(b, x)

DistinctKeys(items) ==
    \A i, j \in 1..Len(items) : KeyOf(items[i]) = KeyOf(items[j]) => i = j

MergedWithEmpty == pc = "merged" /\ (pdf_items = <<>> \/ openf1_items = <<>>)

\* the source that is not empty (either, when both are)
OnlySource == IF pdf_items = <<>> THEN openf1_items ELSE pdf_items

\* C11 as stated: merging a timeline A with an empty second source, in either
\* argument position, returns exactly the events of A, none lost and none
\* added, with every event's citation and evidence lists unchanged.
C11_MergeWithEmptyKeepsEvents ==
    MergedWithEmpty => SameEvents(timeline, OnlySource)

\* C11 amended: merging a timeline A whose events have pairwise different
\* merge keys with an empty second source, in either argument position,
\* returns exactly the events of A with their citation and evidence lists
\* unchanged.
C11_MergeWithEmptyKeepsDistinctKeys ==
    (MergedWithEmpty /\ DistinctKeys(OnlySource)) => SameEvents(timeline, OnlySource)

\* two document events of different keys, one of them with citations, were
\* merged with no telemetry event
C11_Witness ==
    /\ pc = "merged" /\ openf1_items = <<>>
    /\ Len(pdf_items) = 2 /\ DistinctKeys(pdf_items)
    /\ \E i \in 1..2 : Len(pdf_items[i].pdf_citations) = 2
    /\ Len(timeline) = 2

\* the evidence records of the events of a list
EvidenceOf(items) == UNION {Range(items[i].openf1_evidence) : i \in 1..Len(items)}

\* C12: merge_timelines never drops a telemetry fact: every evidence record of
\* every telemetry event of the input is in the evidence list of some event of
\* the output, whether or not a document event or another telemetry event has
\* the same merge key.
C12_NoTelemetryEvidenceDropped ==
    pc = "merged" => EvidenceOf(openf1_items) \subseteq EvidenceOf(timeline)

\* two telemetry events of one merge key and different messages were merged
\* into one event that holds the evidence record of the second only
C12_Witness ==
    /\ pc = "merged" /\ pdf_items = <<>>
    /\ Len(openf1_items) = 2
    /\ KeyOf(openf1_items[1]) = KeyOf(openf1_items[2])
    /\ openf1_items[1].openf1_evidence # openf1_items[2].openf1_evidence
    /\ Len(timeline) = 1
    /\ timeline[1].openf1_evidence = openf1_items[2].openf1_evidence

(***************************************************************************)
(* Confidence of the events build_race_timeline returns                    *)
(***************************************************************************)
\* C13: in the timeline build_race_timeline returns, every event with at least
\* one telemetry evidence record has confidence High, whatever its kind, its
\* impacted drivers and the lap or pit data given.
C13_TelemetryBackedIsHigh ==
    Returned =>
        \A i \in 1..Len(result.timeline_items) :
            Len(result.timeline_items[i].openf1_evidence) >= 1
                => result.timeline_items[i].confidence = "High"

\* a call given lap and pit data returned a pit-stop event that carries
\* telemetry evidence and is not High
C13_Witness ==
    /\ Returned /\ laps_data # <<>> /\ pit_data # <<>>
    /\ \E i \in 1..Len(result.timeline_items) :
          /\ result.timeline_items[i].event_type = "PIT"
          /\ Len(result.timeline_items[i].openf1_evidence) >= 1
          /\ result.timeline_items[i].confidence \in {"Low", "Medium"}

(***************************************************************************)
(* The _extract_* methods of TimelineBuilder on their own, each called     *)
(* with (year, gp_name, session_type) for a session the service has        *)
(***************************************************************************)
MaxPitStops == 3

\* records of the pit collection; a field that is NONE is a key the record
\* does not have: two stops of one lap on the same compound, a third on
\* another, a stop of another lap, a stop without lap, a stop with lap only
PitRecords ==
    {Pit(22, D_VER, C_SOFT), Pit(22, D_HAM, C_SOFT), Pit(22, D_HAM, C_HARD),
     Pit(23, D_VER, C_HARD), Pit(NoLap, D_VER, C_SOFT), Pit(22, NONE, NONE)}

ExtractMetadata == Metadata(2024, GP_MONZA, ST_RACE)

\* the service with one race session and the given collections for it
ExtractRemote(up, data) ==
    [up |-> up, sessions |-> (2024 :> <<S_MONZA_R>>), data |-> (9102 :> data)]

PitRemotes ==
    {ExtractRemote(up, [NoData EXCEPT !.pit = ps]) :
        up \in BOOLEAN, ps \in SeqsUpTo(PitRecords, MaxPitStops)}

MaxStints == 3

\* records of the stints collection: two stints of one driver, two of another
StintRecords ==
    {Stint(D_VER, 1, C_SOFT), Stint(D_VER, 17, C_HARD),
     Stint(D_HAM, 1, C_HARD), Stint(D_HAM, 20, C_SOFT)}

StintRemotes ==
    {ExtractRemote(up, [NoData EXCEPT !.stints = ss]) :
        up \in BOOLEAN, ss \in SeqsUpTo(StintRecords, MaxStints)}

ExtractRemotes == PitRemotes \cup StintRemotes

InitExtract ==
    /\ SideIdle
    /\ pc = "extract_ready"
    /\ remote \in ExtractRemotes
    /\ set_order \in SetOrders
    /\ session_metadata = ExtractMetadata
    /\ llm = NoLlm /\ laps_data = <<>> /\ pit_data = <<>>
    /\ debug_info = NoDebugInfo
    /\ pdf_items = <<>> /\ openf1_items = <<>> /\ timeline = <<>>
    /\ calls = <<>> /\ result = NoResult
    /\ RaceControlIdle /\ ClientIdle

\* _extract_pit_events(openf1_client, year, gp_name, session_type)
ExtractPitEvents ==
    /\ pc = "extract_ready"
    /\ \E fetched \in {sub_fetch(remote, "pit", FALSE, session_metadata.year,
                                 session_metadata.gp_name,
                                 session_metadata.session_type)} :
          /\ openf1_items' = pit_items(fetched.records, set_order)
          /\ calls' = fetched.calls
    /\ pc' = "pit_extracted"
    /\ UNCHANGED side_vars
    /\ UNCHANGED <<session_metadata, llm, laps_data, pit_data, remote, set_order,
                   debug_info, pdf_items, timeline, result, rc_messages, flag_counts,
                   local_cache, cl_last>>

\* _extract_stint_events(openf1_client, year, gp_name, session_type)
ExtractStintEvents ==
    /\ pc = "extract_ready"
    /\ \E fetched \in {sub_fetch(remote, "stints", FALSE, session_metadata.year,
                                 session_metadata.gp_name,
                                 session_metadata.session_type)} :
          /\ openf1_items' = stint_items(fetched.records)
          /\ calls' = fetched.calls
    /\ pc' = "stints_extracted"
    /\ UNCHANGED side_vars
    /\ UNCHANGED <<session_metadata, llm, laps_data, pit_data, remote, set_order,
                   debug_info, pdf_items, timeline, result, rc_messages, flag_counts,
                   local_cache, cl_last>>

NextExtract == ExtractPitEvents \/ ExtractStintEvents

SpecExtract == InitExtract /\ [][NextExtract]_vars

\* the pit collection the service holds for the session
PitCollection == remote.data[9102].pit

\* the stops of a lap, in the order of the collection
StopsOfLap(lap) == SelectIn(PitCollection, {p \in Range(PitCollection) : p.lap = lap})

\* how many times the text sub occurs in the text s
Occurrences(sub, s) ==
    Cardinality({i \in 1..(Len(s) - Len(sub) + 1) : SubSeq(s, i, i + Len(sub) - 1) = sub})

FetchCalls == {i \in 1..Len(calls) : calls[i].method # "search_sessions"}

\* C15: once build_openf1_timeline has resolved a session, at any stage, and
\* recorded its id in the diagnostics, every collection fetched in that build
\* is fetched for that session id, and the extraction does fetch for it: the
\* resolved session is not replaced by another session or by none.
C15_FetchesUseResolvedSession ==
    (pc \in {"merge_timelines", "idle"} /\ SessionResolved) =>
        /\ \A i \in FetchCalls : calls[i].session_id = debug_info.session_id
        /\ \E i \in FetchCalls : calls[i] = GetCall("race_control", debug_info.session_id)

\* asked for the qualifying of an event the service has the race of only, the
\* build resolved the race session without the kind filter and then fetched
\* no collection at all
C15_Witness ==
    /\ pc \in {"merge_timelines", "idle"} /\ SessionResolved
    /\ session_metadata = Metadata(2024, GP_MONACO, ST_QUALIFYING)
    /\ debug_info.session_id = 9201
    /\ FetchCalls = {}
    /\ Len(calls) > 2

(***************************************************************************)
(* Stage 3 of the session resolution                                       *)
(***************************************************************************)
\* what the search without the kind filter returns for the call's metadata
StageThreeSessions ==
    client_search(remote, session_metadata.year, session_metadata.gp_name, NONE)

\* stage 3 is reached and has results: the search with the kind found nothing
StageThreeResolves ==
    /\ pc \in {"merge_timelines", "idle"} /\ calls # <<>>
    /\ client_search(remote, session_metadata.year, session_metadata.gp_name,
                     session_metadata.session_type) = <<>>
    /\ StageThreeSessions # <<>>

\* the results of the requested kind, letter case apart
OfRequestedKind ==
    SelectIn(StageThreeSessions,
             {s \in Range(StageThreeSessions) :
                 str_upper(s.session_type) = str_upper(session_metadata.session_type)})

\* C16: when the search without the kind filter has results, the session
\* chosen is the first one whose kind equals the requested kind, letter case
\* apart, whatever kind was requested; only if none has that kind is the first
\* result taken.
C16_StageThreePrefersRequestedKind ==
    StageThreeResolves =>
        /\ debug_info.session_found
        /\ debug_info.session_id
             = session_id_of(IF OfRequestedKind # <<>> THEN OfRequestedKind[1]
                             ELSE StageThreeSessions[1])

\* asked for the sprint of an event that has a qualifying and a race session,
\* in this order, the build chose the race session
C16_Witness ==
    /\ StageThreeResolves
    /\ session_metadata.session_type = ST_SPRINT
    /\ OfRequestedKind = <<>>
    /\ Len(StageThreeSessions) >= 2
    /\ session_id_of(StageThreeSessions[1]) = 9101
    /\ debug_info.session_found /\ debug_info.session_id = 9102

(***************************************************************************)
(* Order of the timeline build_race_timeline ends with                     *)
(***************************************************************************)
BuildFinished == pc = "idle" /\ session_metadata # NoMetadata

\* the event _extract_session_results builds
IsSessionResult(item) ==
    \E e \in Range(item.openf1_evidence) : e.evidence_type = "RESULT"

\* ascending by lap, ties broken by the kind; events without a lap after every
\* event with a numbered lap
OrderedByLapThenKind(items) ==
    \A i, j \in 1..Len(items) :
        i < j =>
            /\ (items[i].lap # NoLap /\ items[j].lap # NoLap) =>
                  \/ items[i].lap < items[j].lap
                  \/ /\ items[i].lap = items[j].lap
                     /\ type_rank(items[i].event_type) <= type_rank(items[j].event_type)
            /\ items[i].lap = NoLap =>
                  /\ items[j].lap = NoLap
                  /\ type_rank(items[i].event_type) <= type_rank(items[j].event_type)

\* C17: the merged timeline is ascending by lap with ties broken by the kind;
\* events without a lap come after every event with a numbered lap and sort
\* before the session-result event, which is the last event when present.
C17_OrderedWithResultLast ==
    BuildFinished =>
        /\ OrderedByLapThenKind(timeline)
        /\ \A i \in 1..Len(timeline) :
              /\ timeline[i].lap = NoLap => sort_lap(timeline[i]) < session_result_lap
              /\ IsSessionResult(timeline[i]) => i = Len(timeline)

\* a timeline with two kinds of event on one lap and an event without lap at
\* its end, whose sort key is above the lap of the session-result event
C17_Witness ==
    /\ BuildFinished /\ OrderedByLapThenKind(timeline)
    /\ \E i, j \in 1..Len(timeline) :
          /\ i < j /\ timeline[i].lap = timeline[j].lap /\ timeline[i].lap # NoLap
          /\ timeline[i].event_type # timeline[j].event_type
    /\ timeline[Len(timeline)].lap = NoLap
    /\ sort_lap(timeline[Len(timeline)]) > session_result_lap
    /\ debug_info.session_id \in DOMAIN remote.data
    /\ remote.data[debug_info.session_id].session_result # <<>>
    /\ \A i \in 1..Len(timeline) : ~IsSessionResult(timeline[i])

(***************************************************************************)
(* Strategy changes of the stints collection                               *)
(***************************************************************************)
StintCollection == remote.data[9102].stints

\* the stints of a driver, in the order of the collection
StintsOfDriver(d) ==
    SelectIn(StintCollection, {x \in Range(StintCollection) : x.driver_name = d})

\* the strategy-change events of a driver among the extracted events
StrategyEventsOf(d) ==
    {i \in 1..Len(openf1_items) :
        /\ openf1_items[i].event_type = "STRATEGY"
        /\ openf1_items[i].impacted_drivers = <<d>>}

\* C18: for a resolved session, a driver with n >= 2 stints has exactly n-1
\* strategy-change events, one per pair of consecutive stints, each at the lap
\* where the new stint begins and naming the from and to compound; a driver
\* with a single stint has none.
C18_OneStrategyEventPerTransition ==
    (pc = "stints_extracted" /\ remote.up) =>
        \A d \in {x.driver_name : x \in Range(StintCollection)} :
            /\ Cardinality(StrategyEventsOf(d)) = Len(StintsOfDriver(d)) - 1
            /\ \A k \in 1..(Len(StintsOfDriver(d)) - 1) :
                  \E i \in StrategyEventsOf(d) :
                      /\ openf1_items[i].lap = StintsOfDriver(d)[k + 1].lap_start
                      /\ Occurrences(StintsOfDriver(d)[k].compound,
                                     openf1_items[i].description) >= 1
                      /\ Occurrences(StintsOfDriver(d)[k + 1].compound,
                                     openf1_items[i].description) >= 1

\* a driver with two stints and a driver with one, and no event extracted
C18_Witness ==
    /\ pc = "stints_extracted" /\ remote.up
    /\ StintCollection = <<Stint(D_VER, 1, C_SOFT), Stint(D_HAM, 1, C_HARD),
                           Stint(D_VER, 17, C_HARD)>>
    /\ Len(calls) = 2
    /\ openf1_items = <<>>


(***************************************************************************)
(* The control messages that become events                                 *)
(***************************************************************************)
\* the allow-list of the INFO messages, in lower case
InfoAllowList ==
    { <<"p","i","t"," ","l","a","n","e"," ","o","p","e","n">>,
      <<"p","i","t"," ","l","a","n","e"," ","c","l","o","s","e","d">>,
      <<"g","r","e","e","n"," ","l","i","g","h","t">>,
      <<"g","r","i","d"," ","p","e","n","a","l","t","y">>,
      <<"t","y","r","e"," ","r","u","l","e">> }

\* the control message produces an event: its kind is not INFO, or its text
\* holds a phrase of the allow-list in any letter case
ProducesEvent(msg) ==
    \/ FirstMatchingRule(LC(msg.message)) # "INFO"
    \/ \E phrase \in InfoAllowList : str_in(phrase, LC(msg.message))

\* the positions of the control messages that produce an event, ascending
ProducingPositions ==
    sorted_ints({i \in 1..Len(rc_messages) : ProducesEvent(rc_messages[i])})

InfoMessageDropped ==
    /\ pc = "rc_done"
    /\ rc_messages = <<RcMessage(P_DRS, 12)>>
    /\ openf1_items = <<>>


(***************************************************************************)
(* Confidence of the events that only the document supports                *)
(***************************************************************************)
DocumentOnly(item) == item.openf1_evidence = <<>>

\* C20: in the timeline build_race_timeline returns, an event without
\* telemetry evidence has confidence Medium when it has at least one citation
\* and Low when it has none; it is never High.
C20_DocumentOnlyConfidence ==
    BuildFinished =>
        \A i \in 1..Len(timeline) :
            DocumentOnly(timeline[i]) =>
                timeline[i].confidence
                    = (IF timeline[i].pdf_citations # <<>> THEN "Medium" ELSE "Low")

\* a returned timeline with an event of the document alone that has a lap
\* and whose confidence is High
C20_Witness ==
    /\ BuildFinished
    /\ \E i \in 1..Len(timeline) :
          /\ DocumentOnly(timeline[i])
          /\ timeline[i].lap # NoLap
          /\ timeline[i].confidence = "High"

(***************************************************************************)
(* Beneficiaries of the safety-car periods                                 *)
(***************************************************************************)
\* the drivers with a pit stop of pit_data within 2 laps of the lap
PittedWithinWindow(lap) ==
    {pit_data[k].driver_name : k \in {j \in 1..Len(pit_data) :
        /\ lap # NoLap /\ pit_data[j].lap # NoLap
        /\ lap - 2 <= pit_data[j].lap /\ pit_data[j].lap <= lap + 2}}

\* C21: for every SAFETY_CAR or VIRTUAL_SAFETY_CAR event, compute_impact
\* lists as beneficiaries exactly the drivers with a pit stop within 2 laps of
\* the event's lap; when there is no such stop, also when pit_data is empty or
\* absent, the impact summary is the explicit "no one pitted" text, never blank.
C21_SafetyCarBeneficiaries ==
    Returned =>
        \A i \in 1..Len(timeline) :
            timeline[i].event_type \in {"SC", "VSC"} =>
                /\ Range(timeline[i].impacted_drivers) = PittedWithinWindow(timeline[i].lap)
                /\ PittedWithinWindow(timeline[i].lap) = {} =>
                      timeline[i].impact_summary.text
                          = "No drivers pitted during this period"

\* a returned timeline with a safety-car event of a numbered lap, built with
\* no pit_data, whose impact summary is blank
C21_Witness ==
    /\ Returned /\ pit_data = <<>>
    /\ \E i \in 1..Len(timeline) :
          /\ timeline[i].event_type = "SC" /\ timeline[i].lap # NoLap
          /\ timeline[i].impact_summary = NoSummary

\* the beneficiaries and the explicit text when pit_data is given
SafetyCarImpactWithPitData ==
    (Returned /\ pit_data # <<>>) =>
        \A i \in 1..Len(timeline) :
            (timeline[i].event_type \in {"SC", "VSC"} /\ timeline[i].lap # NoLap) =>
                /\ Range(timeline[i].impacted_drivers) = PittedWithinWindow(timeline[i].lap)
                /\ PittedWithinWindow(timeline[i].lap) = {} =>
                      timeline[i].impact_summary.text
                          = "No drivers pitted during this period"

(***************************************************************************)
(* Events without participants                                             *)
(***************************************************************************)
GenericImpact(item) ==
    /\ item.impact_summary.text = "Track condition change; check driver strategies"
    /\ item.confidence = "High"

\* C22: compute_impact processes every event of the merged timeline whatever
\* its lap (numbered, 0 or none): every event with no impacted participants
\* that is not a safety-car or pit-stop event ends with the generic
\* track-condition impact summary and confidence High.
C22_GenericImpactWhateverLap ==
    Returned =>
        \A i \in 1..Len(timeline) :
            (/\ timeline[i].impacted_drivers = <<>>
             /\ timeline[i].event_type \notin {"SC", "VSC", "PIT"})
                => GenericImpact(timeline[i])

\* a returned timeline with an event without lap and without participants,
\* not a safety-car or pit-stop event, without the generic summary, next to
\* an event of a numbered lap that has the generic summary
C22_Witness ==
    /\ Returned
    /\ \E i, j \in 1..Len(timeline) :
          /\ timeline[i].lap = NoLap
          /\ timeline[i].impacted_drivers = <<>>
          /\ timeline[i].event_type \notin {"SC", "VSC", "PIT"}
          /\ timeline[i].impact_summary.text
               # "Track condition change; check driver strategies"
          /\ timeline[j].lap # NoLap /\ GenericImpact(timeline[j])

\* the generic summary of the events of a numbered lap that the earlier
\* branches of compute_impact leave alone
GenericImpactOfNumberedLaps ==
    Returned =>
        \A i \in 1..Len(timeline) :
            (/\ timeline[i].impacted_drivers = <<>>
             /\ timeline[i].lap \notin {NoLap, 0}
             /\ timeline[i].event_type \notin {"SC", "VSC", "PIT", "INCIDENT", "PACE"})
                => GenericImpact(timeline[i])

(***************************************************************************)
(* The sub-fetches of a build do not depend on each other                  *)
(***************************************************************************)
\* the telemetry events of the build that carry evidence of the given type
EventsWithEvidence(evidence_type) ==
    SelectIn(openf1_items, {x \in Range(openf1_items) :
        x.openf1_evidence # <<>> /\ x.openf1_evidence[1].evidence_type = evidence_type})

\* what the client returns to the sub-fetch of a collection in this build
FetchedRecords(endpoint) ==
    sub_fetch(remote, endpoint, FALSE, debug_info.detected_year,
              session_metadata.gp_name, session_metadata.session_type).records

\* the collections whose sub-fetch raises on the first record it turns into an
\* event, with the member of the enum it asks for
RaisingMember ==
    [stints |-> "STRATEGY", overtakes |-> "OVERTAKE", starting_grid |-> "GRID",
     session_result |-> "RESULT"]
SubFetchRaises(endpoint) ==
    /\ endpoint \in DOMAIN RaisingMember
    /\ RaisingMember[endpoint] \notin EnumMembers
    /\ FetchedRecords(endpoint) # <<>>

\* the events a sub-fetch produces from its own collection alone
OwnEvents(endpoint, evidence_type) ==
    CASE evidence_type = "race_control" -> race_control_items(FetchedRecords(endpoint))
      [] evidence_type = "pit_stop" -> pit_items(FetchedRecords(endpoint), set_order)
      [] evidence_type = "fastest_lap" -> lap_marker_items(FetchedRecords(endpoint))
      [] evidence_type = "position_change" -> position_change_items(FetchedRecords(endpoint))
      [] evidence_type = "weather" -> weather_items(FetchedRecords(endpoint))
      [] OTHER -> <<>>

\* the sub-fetches: the collection each reads and the evidence its events carry
SubFetches ==
    {<<"race_control", "race_control">>, <<"pit", "pit_stop">>,
     <<"stints", "stint_change">>, <<"laps", "fastest_lap">>,
     <<"laps", "position_change">>, <<"weather", "weather">>,
     <<"overtakes", "OVERTAKE">>, <<"starting_grid", "GRID">>,
     <<"session_result", "RESULT">>}

\* build_openf1_timeline of the running build has resolved a session
FetchesDone == pc = "merge_timelines" /\ SessionResolved

EmptyCollectionsNextToEvents ==
    /\ FetchesDone
    /\ FetchedRecords("laps") = <<>> /\ FetchedRecords("weather") = <<>>
    /\ EventsWithEvidence("race_control") # <<>>
    /\ EventsWithEvidence("pit_stop") # <<>>

(***************************************************************************)
(* A document-event answer that is no JSON array                           *)
(***************************************************************************)
\* the LLM call of the running or last build failed, or its answer holds no
\* JSON array that parses
LlmAnswerUnusable == llm.outcome \in {"raise", "nojson", "badjson"}

\* the telemetry events of a build with the same arguments and no document
TelemetryEventsAlone ==
    build_openf1_timeline(remote, session_metadata, NoDebugInfo, set_order).items

\* C24: when the LLM's document-event response cannot be parsed as a JSON
\* array, or the LLM call fails, the build has zero document events and its
\* telemetry-derived events are exactly those it would have produced with no
\* document events at all.
C24_UnusableAnswerKeepsTelemetry ==
    (LlmAnswerUnusable /\ pc \in {"build_openf1_timeline", "merge_timelines", "idle"}) =>
        /\ pdf_items = <<>>
        /\ pc \in {"merge_timelines", "idle"} => openf1_items = TelemetryEventsAlone
        /\ pc = "idle" =>
              timeline = compute_impact(merge_timelines(<<>>, TelemetryEventsAlone),
                                        laps_data, pit_data).timeline

\* a build whose LLM answer did not parse has ended with the telemetry events
\* of its session as its timeline
C24_Witness ==
    /\ Returned /\ llm.outcome = "badjson"
    /\ pdf_items = <<>>
    /\ Len(timeline) >= 3
    /\ \A i \in 1..Len(timeline) : timeline[i].openf1_evidence # <<>>

(***************************************************************************)
(* The candidates of the parsed array and the document events              *)
(***************************************************************************)
\* the kind tags of the taxonomy, as the prompt lists them
TaxonomyTags ==
    << <<"S","C">>, <<"V","S","C">>, <<"R","E","D">>, <<"Y","E","L","L","O","W">>,
       <<"P","I","T">>, <<"W","E","A","T","H","E","R">>,
       <<"I","N","C","I","D","E","N","T">>,
       <<"P","A","C","E","_","C","H","A","N","G","E">>, <<"I","N","F","O">> >>

\* the kind a kind tag stands for: the taxonomy's kind of that tag, INFO for
\* any other tag and for a candidate without tag
KindOfTag(tag) ==
    IF \E i \in 1..Len(TaxonomyTags) : TaxonomyTags[i] = str_upper(tag)
    THEN EnumNames[CHOOSE i \in 1..Len(TaxonomyTags) : TaxonomyTags[i] = str_upper(tag)]
    ELSE "INFO"

\* extract_pdf_events of the running build has parsed an array
ArrayParsed ==
    /\ pc \in {"build_openf1_timeline", "merge_timelines"}
    /\ llm.outcome = "array"

\* C25: every candidate of the parsed JSON array yields exactly one document
\* event; a kind tag of the taxonomy maps to that kind and any other kind tag
\* is coerced to INFO with the event kept, never rejected.
C25_EveryCandidateYieldsOneEvent ==
    ArrayParsed =>
        /\ Len(pdf_items) = Len(llm.events_data)
        /\ \A i \in 1..Len(pdf_items) :
              pdf_items[i].event_type = KindOfTag(llm.events_data[i].event_type)

\* an array of two candidates, one that the conversion raises on and one with
\* a kind tag outside the taxonomy, gave one document event, of kind INFO
C25_Witness ==
    /\ ArrayParsed
    /\ Len(llm.events_data) = 2
    /\ llm.events_data[1].malformed
    /\ llm.events_data[2].event_type = TAG_CRASH
    /\ Len(pdf_items) = 1
    /\ pdf_items[1].event_type = "INFO"

\* the kinds of the events of the candidates the conversion does not raise on
ConvertedCandidatesKeepKind ==
    ArrayParsed =>
        LET kept == SelectIn(llm.events_data,
                             {e \in Range(llm.events_data) : ~e.malformed})
        IN  /\ Len(pdf_items) = Len(kept)
            /\ \A i \in 1..Len(kept) :
                  pdf_items[i].event_type = KindOfTag(kept[i].event_type)

(***************************************************************************)
(* The citations of a document event: Retriever.retrieve and               *)
(* InMemoryVectorStore.search (rag/retrieve.py, rag/store.py)              *)
(***************************************************************************)
MaxChunks == 4

DOC_A == <<"d","o","c","-","a">>
DOC_B == <<"d","o","c","-","b">>
DocIds == {DOC_A, DOC_B}

\* cosine similarity of a chunk to the query, in tenths
Similarities == {3, 7}

\* Chunk(id=f"{doc_id}_chunk_{idx}", document_id=doc_id, ...) of ingest; the
\* similarity of its embedding to the query embedding stands for the
\* embedding; the metadata ingest writes has no "document_id" key
Chunk(document_id, idx, similarity) ==
    [id |-> <<document_id, idx>>, document_id |-> document_id,
     metadata |-> [document_id |-> NONE], similarity |-> similarity]

\* InMemoryVectorStore.search: the chunks in insertion order, filtered on
\* metadata["document_id"] when a filter is given, sorted by similarity
\* descending (the sort is stable) and cut to k
store_search(chunks, k, metadata_filter) ==
    LET results == SelectIn(chunks, {c \in Range(chunks) :
                       metadata_filter = NONE
                       \/ c.metadata.document_id = metadata_filter})
        before(i, j) == \/ results[i].similarity > results[j].similarity
                        \/ results[i].similarity = results[j].similarity /\ i < j
        sorted == [r \in 1..Len(results) |->
                      results[CHOOSE i \in 1..Len(results) :
                          Cardinality({j \in 1..Len(results) : before(j, i)}) = r - 1]]
    IN  SubSeq(sorted, 1, IF Len(sorted) < k THEN Len(sorted) ELSE k)

\* Retriever.retrieve(query, document_id=None, top_k=None): the filter is set
\* only `if document_id:`
retrieve(chunks, document_id, k) ==
    store_search(chunks, k,
                 IF document_id # NONE /\ document_id # <<>> THEN document_id ELSE NONE)

\* the retrieval of _event_to_timeline_item(event_data, doc_id):
\* self.retriever.retrieve(search_query, top_k=3), and a PDFCitation for each
\* chunk returned
retrieve_citations(chunks, for_doc_id) ==
    LET results == retrieve(chunks, NONE, top_k)
    IN  [i \in 1..Len(results) |-> [chunk_id |-> results[i].id]]

InitCitations ==
    /\ SideIdle
    /\ pc = "store_ready"
    /\ remote = NoRemote
    /\ BuilderIdle /\ RaceControlIdle /\ ClientIdle

\* vector_store.add_chunks of the ingestion of a document: one chunk more
AddChunk ==
    /\ pc = "store_ready"
    /\ Len(vector_store) < MaxChunks
    /\ \E d \in DocIds, similarity \in Similarities :
          vector_store' =
              Append(vector_store,
                     Chunk(d, Cardinality({i \in 1..Len(vector_store) :
                                              vector_store[i].document_id = d}),
                           similarity))
    /\ UNCHANGED <<now, doc_id, chunking>>
    /\ UNCHANGED <<pc, session_metadata, llm, laps_data, pit_data, remote, set_order,
                   debug_info, pdf_items, openf1_items, timeline, calls, result,
                   rc_messages, flag_counts, local_cache, cl_last>>

\* _event_to_timeline_item(event_data, doc_id) for the event of a build of
\* document doc_id
EventToTimelineItem ==
    /\ pc = "store_ready"
    /\ \E d \in DocIds :
          /\ doc_id' = d
          /\ \E pdf_citations \in {retrieve_citations(vector_store, d)} :
                pdf_items' = <<TimelineItem(15, "SC", DESC_SC, pdf_citations, <<>>, <<>>,
                                            NoSummary,
                                            IF pdf_citations # <<>> THEN "Medium"
                                            ELSE "Low")>>
    /\ pc' = "item_built"
    /\ UNCHANGED <<now, vector_store, chunking>>
    /\ UNCHANGED <<session_metadata, llm, laps_data, pit_data, remote, set_order,
                   debug_info, openf1_items, timeline, calls, result,
                   rc_messages, flag_counts, local_cache, cl_last>>

NextCitations == AddChunk \/ EventToTimelineItem

SpecCitations == InitCitations /\ [][NextCitations]_vars

\* the document a citation's chunk belongs to
CitedDocument(citation) == citation.chunk_id[1]

\* C26: every citation of a document event of the build of doc_id refers to a
\* chunk of document doc_id, and the event has at most 3 citations, also when
\* other documents were ingested into the same vector store before the build.
C26_CitationsOfThisDocument ==
    pc = "item_built" =>
        \A i \in 1..Len(pdf_items) :
            /\ Len(pdf_items[i].pdf_citations) <= 3
            /\ \A k \in 1..Len(pdf_items[i].pdf_citations) :
                  CitedDocument(pdf_items[i].pdf_citations[k]) = doc_id

\* a store with chunks of two documents, and an event of the build of one of
\* them with three citations, the first of a chunk of the other document
C26_Witness ==
    /\ pc = "item_built"
    /\ Len(vector_store) = 4
    /\ \E i, j \in 1..Len(vector_store) :
          vector_store[i].document_id = doc_id /\ vector_store[j].document_id # doc_id
    /\ Len(pdf_items[1].pdf_citations) = 3
    /\ CitedDocument(pdf_items[1].pdf_citations[1]) # doc_id

\* the bound of three citations on its own
AtMostTopKCitations ==
    \A i \in 1..Len(pdf_items) : Len(pdf_items[i].pdf_citations) <= top_k

(***************************************************************************)
(* The statistics of the returned RaceTimeline                             *)
(***************************************************************************)
\* how many events of the returned timeline are of the kind
EventsOfKind(kind) ==
    Cardinality({i \in 1..Len(result.timeline_items) :
                    result.timeline_items[i].event_type = kind})

\* the impacted participants of the events of the returned timeline
ImpactedParticipants ==
    UNION {Range(result.timeline_items[i].impacted_drivers) :
              i \in 1..Len(result.timeline_items)}

\* C27: in every RaceTimeline build_race_timeline returns, the event-kind
\* count map gives for each kind exactly the number of timeline events of that
\* kind, and drivers_involved is the sorted, duplicate-free union of the
\* events' impacted participants.
C27_StatisticsMatchTimeline ==
    Returned =>
        /\ result.timeline_items = timeline
        /\ \A kind \in DOMAIN result.event_counts :
              result.event_counts[kind] = EventsOfKind(kind) /\ EventsOfKind(kind) > 0
        /\ \A i \in 1..Len(timeline) : timeline[i].event_type \in DOMAIN result.event_counts
        /\ Range(result.drivers_involved) = ImpactedParticipants
        /\ \A i, j \in 1..Len(result.drivers_involved) :
              i < j => str_less(result.drivers_involved[i], result.drivers_involved[j])

\* a returned timeline with two events of one kind and several drivers, which
\* its events name more than once and not in sorted order
C27_Witness ==
    /\ Returned
    /\ \E kind \in DOMAIN result.event_counts : result.event_counts[kind] >= 2
    /\ Len(result.drivers_involved) >= 2
    /\ result.drivers_involved[1] = D_HAM
    /\ D_VER \in Range(result.drivers_involved)
    /\ Len(DriversAsMet(timeline)) > 2
    /\ \E i, j \in 1..Len(DriversAsMet(timeline)) :
          i < j /\ DriversAsMet(timeline)[i] = D_VER /\ DriversAsMet(timeline)[j] = D_HAM

(***************************************************************************)
(* OpenF1Client._request attempt by attempt, with the clock of its cache   *)
(***************************************************************************)
\* `if time.time() - timestamp < 86400`
cache_seconds == 86400

\* the clock advances by half a day, up to MaxTicks times
TickSeconds == cache_seconds \div 2
MaxTicks == 4

\* what an attempt of the loop ends in: response.json() returned, `except
\* requests.exceptions.RequestException`, or `except Exception`
AttemptOutcomes == {"ok", "request_error", "other_error"}
OutcomeSeqs == [1..retry_max_attempts -> AttemptOutcomes]

\* the requests made: endpoint and params
RequestKeys == {SessionsKey(2024), CollectionKey("pit", 9102)}

\* the JSON the service answers at time t
Response(cache_key, t) == [of |-> cache_key, served_at |-> t]

\* the loop without `except Exception`: every failed attempt is retried
RequestRetryingEveryError(cache, cache_key, t, outcomes) ==
    LET hit == cache_key \in DOMAIN cache /\ t - cache[cache_key].timestamp < cache_seconds
        oks == {i \in 1..retry_max_attempts : outcomes[i] = "ok"}
        attempts == IF oks = {} THEN retry_max_attempts
                    ELSE CHOOSE i \in oks : \A j \in oks : i <= j
    IN  IF hit
        THEN [hit |-> TRUE, attempts |-> 0, raised |-> FALSE,
              data |-> cache[cache_key].data, cache |-> cache]
        ELSE IF oks = {}
        THEN [hit |-> FALSE, attempts |-> attempts, raised |-> TRUE, data |-> NONE,
              cache |-> cache]
        ELSE [hit |-> FALSE, attempts |-> attempts, raised |-> FALSE,
              data |-> Response(cache_key, t),
              cache |-> [k \in DOMAIN cache \cup {cache_key} |->
                            IF k = cache_key
                            THEN [data |-> Response(cache_key, t), timestamp |-> t]
                            ELSE cache[k]]]

\* the retry loop of _request at time t; outcomes[i] is what attempt i ends in
\* if the loop comes to it
\*   attempts : how many times self.session.get was called
request_loop(cache, cache_key, t, outcomes) ==
    LET ended == {i \in 1..retry_max_attempts : outcomes[i] # "request_error"}
        attempts == IF ended = {} THEN retry_max_attempts
                    ELSE CHOOSE i \in ended : \A j \in ended : i <= j
    IN  IF outcomes[attempts] = "ok"
        THEN [hit |-> FALSE, attempts |-> attempts, raised |-> FALSE,
              data |-> Response(cache_key, t),
              cache |-> [k \in DOMAIN cache \cup {cache_key} |->
                            IF k = cache_key
                            THEN [data |-> Response(cache_key, t), timestamp |-> t]
                            ELSE cache[k]]]
        ELSE [hit |-> FALSE, attempts |-> attempts, raised |-> TRUE, data |-> NONE,
              cache |-> cache]

\* the cache check without the test of the entry's age
RequestIgnoringAge(cache, cache_key, t, outcomes) ==
    IF cache_key \in DOMAIN cache
    THEN [hit |-> TRUE, attempts |-> 0, raised |-> FALSE,
          data |-> cache[cache_key].data, cache |-> cache]
    ELSE request_loop(cache, cache_key, t, outcomes)

\* _request(endpoint, params) at time t
\*   hit : the entry of the cache was returned
request_at(cache, cache_key, t, outcomes) ==
    IF cache_key \in DOMAIN cache /\ t - cache[cache_key].timestamp < cache_seconds
    THEN [hit |-> TRUE, attempts |-> 0, raised |-> FALSE,
          data |-> cache[cache_key].data, cache |-> cache]
    ELSE request_loop(cache, cache_key, t, outcomes)

InitRequest ==
    /\ pc = "request"
    /\ now = 0 /\ vector_store = <<>> /\ doc_id = NONE /\ chunking = NoChunking
    /\ remote = NoRemote
    /\ local_cache = <<>> /\ cl_last = NoClientCall
    /\ BuilderIdle /\ RaceControlIdle

\* self._request(endpoint, params)
Request ==
    /\ pc = "request"
    /\ \E cache_key \in RequestKeys, outcomes \in OutcomeSeqs :
       \E r \in {request_at(local_cache, cache_key, now, outcomes)} :
          /\ local_cache' = r.cache
          /\ cl_last' = [method |-> "_request", cache_key |-> cache_key, at |-> now,
                         outcomes |-> outcomes, hit |-> r.hit, attempts |-> r.attempts,
                         raised |-> r.raised, data |-> r.data]
    /\ UNCHANGED <<now, vector_store, doc_id, chunking>>
    /\ UNCHANGED <<pc, session_metadata, llm, laps_data, pit_data, remote, set_order,
                   debug_info, pdf_items, openf1_items, timeline, calls, result,
                   rc_messages, flag_counts>>

\* time passes between two requests
Tick ==
    /\ pc = "request"
    /\ now < MaxTicks * TickSeconds
    /\ now' = now + TickSeconds
    /\ UNCHANGED <<vector_store, doc_id, chunking>>
    /\ UNCHANGED <<pc, session_metadata, llm, laps_data, pit_data, remote, set_order,
                   debug_info, pdf_items, openf1_items, timeline, calls, result,
                   rc_messages, flag_counts, local_cache, cl_last>>

NextRequest == Request \/ Tick

SpecRequest == InitRequest /\ [][NextRequest]_vars

\* the last operation was a _request that did not return a cache entry
RequestMissed == cl_last.method = "_request" /\ ~cl_last.hit

\* C28: a call of _request that misses the cache performs at least one and at
\* most retry_max_attempts HTTP attempts, stops at the first successful
\* attempt, retries only after a request error, and raises after the last
\* failed attempt instead of returning a value.
C28_BoundedRetry ==
    RequestMissed =>
        /\ 1 <= cl_last.attempts /\ cl_last.attempts <= retry_max_attempts
        /\ \A i \in 1..(cl_last.attempts - 1) : cl_last.outcomes[i] = "request_error"
        /\ cl_last.attempts < retry_max_attempts
              => cl_last.outcomes[cl_last.attempts] # "request_error"
        /\ cl_last.raised <=> cl_last.outcomes[cl_last.attempts] # "ok"
        /\ cl_last.raised => cl_last.data = NONE
        /\ ~cl_last.raised => cl_last.data = Response(cl_last.cache_key, cl_last.at)

\* a request that failed once with a request error and then met another
\* error raised after two attempts, the third attempt never made
C28_Witness ==
    /\ RequestMissed
    /\ cl_last.outcomes = <<"request_error", "other_error", "ok">>
    /\ cl_last.attempts = 2 /\ cl_last.raised

\* the cache holds an entry of the key that is less than 24 hours old
FreshEntry(cache_key) ==
    /\ cache_key \in DOMAIN local_cache
    /\ now - local_cache[cache_key].timestamp < 24 * 3600

\* what a _request that has just been made did, given the cache it met
RequestFollowsCache ==
    LET k == cl_last'.cache_key
    IN  /\ FreshEntry(k) =>
              /\ cl_last'.hit /\ cl_last'.attempts = 0
              /\ cl_last'.data = local_cache[k].data
              /\ local_cache' = local_cache
        /\ ~FreshEntry(k) =>
              /\ ~cl_last'.hit /\ cl_last'.attempts >= 1
              /\ cl_last'.raised => local_cache' = local_cache
              /\ ~cl_last'.raised =>
                    /\ DOMAIN local_cache' = DOMAIN local_cache \cup {k}
                    /\ local_cache'[k] = [data |-> Response(k, now), timestamp |-> now]
                    /\ \A j \in DOMAIN local_cache \ {k} : local_cache'[j] = local_cache[j]

\* C29: the response cache holds only successful responses, keyed by endpoint
\* and parameters: after a successful _request an identical request within 24
\* hours returns the cached data with no HTTP attempt, an entry older than 24
\* hours is refetched, and a request whose attempts all failed stores nothing,
\* so the next identical request performs HTTP attempts again.
C29_CacheOfSuccessfulResponses ==
    [][/\ \A k \in DOMAIN local_cache' :
             local_cache'[k].data = Response(k, local_cache'[k].timestamp)
       /\ (cl_last' # cl_last \/ local_cache' # local_cache) => RequestFollowsCache]_vars

\* a request answered from the cache half a day after the response was stored,
\* while the entry of the other key, a day and a half old, is kept
C29_Witness ==
    /\ cl_last.method = "_request" /\ cl_last.hit /\ cl_last.attempts = 0
    /\ cl_last.at = now
    /\ cl_last.data = Response(cl_last.cache_key, now - TickSeconds)
    /\ \E k \in DOMAIN local_cache : now - local_cache[k].timestamp = 3 * TickSeconds

\* an entry a day old has been replaced by the response of a new request
ExpiredEntryRefetched ==
    /\ cl_last.method = "_request" /\ ~cl_last.hit /\ ~cl_last.raised
    /\ cl_last.at = now /\ now >= 3 * TickSeconds
    /\ local_cache[cl_last.cache_key].timestamp = now

(***************************************************************************)
(* semantic_chunk (rag/ingest.py)                                          *)
(***************************************************************************)
\* `if len(c.strip()) > 50` of the return
min_chunk_chars == 50

\* \s of Python's re and the whitespace of str.split() and str.strip()
IsWhitespace(c) == c \in {" ", "\n", "\t"}

\* str.strip() with no argument
ws_strip(s) ==
    IF \A i \in 1..Len(s) : IsWhitespace(s[i]) THEN <<>>
    ELSE LET lo == CHOOSE i \in 1..Len(s) :
                       ~IsWhitespace(s[i]) /\ \A j \in 1..(i - 1) : IsWhitespace(s[j])
             hi == CHOOSE i \in 1..Len(s) :
                       ~IsWhitespace(s[i]) /\ \A j \in (i + 1)..Len(s) : IsWhitespace(s[j])
         IN  SubSeq(s, lo, hi)

\* the pieces of s between the cuts; a cut is a pair <<last character before
\* the separator, last character of the separator>>
pieces_between(s, cuts) ==
    LET ends == sorted_ints({c[1] : c \in cuts})
        next_start(k) == IF k = 1 THEN 1
                         ELSE (CHOOSE c \in cuts : c[1] = ends[k - 1])[2] + 1
    IN  [k \in 1..(Len(ends) + 1) |->
            SubSeq(s, next_start(k), IF k <= Len(ends) THEN ends[k] ELSE Len(s))]

\* the last character of the run of whitespace that starts at i
whitespace_run_end(s, i) ==
    CHOOSE j \in i..Len(s) :
        /\ \A m \in i..j : IsWhitespace(s[m])
        /\ j = Len(s) \/ ~IsWhitespace(s[j + 1])

\* re.split(r'(?<=[.!?])\s+', text)
split_sentences(text) ==
    pieces_between(text,
        {<<i, whitespace_run_end(text, i + 1)>> :
            i \in {j \in 1..(Len(text) - 1) :
                     text[j] \in {".", "!", "?"} /\ IsWhitespace(text[j + 1])}})

\* sentence.split('\n')
split_lines(s) ==
    pieces_between(s, {<<i - 1, i>> : i \in {j \in 1..Len(s) : s[j] = "\n"}})

\* part.split()
split_words(s) ==
    LET starts == sorted_ints({i \in 1..Len(s) :
                      ~IsWhitespace(s[i]) /\ (i = 1 \/ IsWhitespace(s[i - 1]))})
        word_end(i) == CHOOSE j \in i..Len(s) :
                          /\ \A m \in i..j : ~IsWhitespace(s[m])
                          /\ j = Len(s) \/ IsWhitespace(s[j + 1])
    IN  [k \in 1..Len(starts) |-> SubSeq(s, starts[k], word_end(starts[k]))]

\* one turn of `for word in words:`
pack_word(st, word, chunk_size) ==
    IF Len(st.temp_chunk) + Len(word) <= chunk_size
    THEN [st EXCEPT !.temp_chunk = IF @ # <<>> THEN @ \o <<" ">> \o word ELSE word]
    ELSE [chunks |-> st.chunks \o (IF st.temp_chunk # <<>>
                                   THEN <<ws_strip(st.temp_chunk)>> ELSE <<>>),
          temp_chunk |-> word]

\* "Force split on spaces": the chunks of a part longer than chunk_size
pack_words(part, chunk_size) ==
    LET words == split_words(part)
        st[k \in 0..Len(words)] ==
            IF k = 0 THEN [chunks |-> <<>>, temp_chunk |-> <<>>]
            ELSE TheOnly({pack_word(p, words[k], chunk_size) : p \in {st[k - 1]}})
    IN  TheOnly({p.chunks \o (IF p.temp_chunk # <<>> THEN <<ws_strip(p.temp_chunk)>>
                              ELSE <<>>) : p \in {st[Len(words)]}})

\* the chunks of a sentence longer than chunk_size
long_sentence_chunks(sentence, chunk_size) ==
    LET parts == split_lines(sentence)
        all[k \in 0..Len(parts)] ==
            IF k = 0 THEN <<>>
            ELSE all[k - 1] \o (IF Len(parts[k]) > chunk_size
                                THEN pack_words(parts[k], chunk_size)
                                ELSE <<ws_strip(parts[k])>>)
    IN  all[Len(parts)]

\* one turn of `for sentence in sentences:`; current_chunk is left as it is
\* after a sentence longer than chunk_size
add_sentence(st, sentence, chunk_size) ==
    IF Len(st.current_chunk) + Len(sentence) <= chunk_size
    THEN [st EXCEPT !.current_chunk =
                        IF @ # <<>> THEN @ \o <<" ">> \o sentence ELSE sentence]
    ELSE [chunks |-> st.chunks
                     \o (IF ws_strip(st.current_chunk) # <<>>
                         THEN <<ws_strip(st.current_chunk)>> ELSE <<>>)
                     \o (IF Len(sentence) > chunk_size
                         THEN long_sentence_chunks(sentence, chunk_size) ELSE <<>>),
          current_chunk |-> IF Len(sentence) > chunk_size THEN st.current_chunk
                            ELSE sentence]

\* chunks after the loop over the sentences and the last append
sentence_chunks(text, chunk_size) ==
    LET sentences == split_sentences(text)
        st[k \in 0..Len(sentences)] ==
            IF k = 0 THEN [chunks |-> <<>>, current_chunk |-> <<>>]
            ELSE TheOnly({add_sentence(p, sentences[k], chunk_size) : p \in {st[k - 1]}})
    IN  TheOnly({p.chunks \o (IF ws_strip(p.current_chunk) # <<>>
                              THEN <<ws_strip(p.current_chunk)>> ELSE <<>>) :
                    p \in {st[Len(sentences)]}})

\* prev_chunk[-chunk_overlap:] if len(prev_chunk) > chunk_overlap else prev_chunk
overlap_text(prev_chunk, chunk_overlap) ==
    IF Len(prev_chunk) > chunk_overlap
    THEN SubSeq(prev_chunk, Len(prev_chunk) - chunk_overlap + 1, Len(prev_chunk))
    ELSE prev_chunk

\* "Add overlap by merging adjacent chunks partially"
overlapped(chunks, chunk_overlap) ==
    IF chunk_overlap > 0
    THEN [i \in 1..Len(chunks) |->
             IF i > 1 THEN overlap_text(chunks[i - 1], chunk_overlap) \o <<" ">> \o chunks[i]
             ELSE chunks[i]]
    ELSE chunks

\* [c.strip() for c in chunks if len(c.strip()) > 50]
long_enough(chunks) ==
    LET kept == sorted_ints({i \in 1..Len(chunks) :
                    Len(ws_strip(chunks[i])) > min_chunk_chars})
    IN  [k \in 1..Len(kept) |-> ws_strip(chunks[kept[k]])]

semantic_chunk(text, chunk_size, chunk_overlap) ==
    TheOnly({long_enough(overlapped(chunks, chunk_overlap)) :
                chunks \in {sentence_chunks(text, chunk_size)}})

MaxSentences == 3

SENT_HELLO == <<"H","e","l","l","o"," ","w","o","r","l","d",".">>
SENT_TEST == <<"T","h","i","s"," ","i","s"," ","t","e","s","t",".">>
SENT_MORE == <<"M","o","r","e"," ","c","o","n","t","e","n","t"," ","h","e","r","e",".">>
SENT_SAFETY_CAR == <<"T","h","e"," ","s","a","f","e","t","y"," ","c","a","r"," ","w","a","s"," ","d","e","p","l","o","y","e","d"," ","a","f","t","e","r"," ","t","h","e"," ","c","r","a","s","h"," ","a","t"," ","t","u","r","n"," ","t","h","r","e","e","!">>
SENT_TWO_LINES == <<"P","i","t"," ","l","a","n","e","\n","o","p","e","n","s"," ","o","n"," ","l","a","p"," ","n","i","n","e","?">>

\* the sentences the texts are made of: three short ones, one of 58
\* characters and one with a line break
Sentences == {SENT_HELLO, SENT_TEST, SENT_MORE, SENT_SAFETY_CAR, SENT_TWO_LINES}

\* the texts: up to MaxSentences sentences separated by a blank
Texts == {join_words(ss) : ss \in SeqsUpTo(Sentences, MaxSentences)}

\* chunk_size and chunk_overlap of the calls
ChunkSizes == {20, 60}
ChunkOverlaps == {0, 5}

InitChunk ==
    /\ pc = "chunk_ready"
    /\ \E text \in Texts, chunk_size \in ChunkSizes, chunk_overlap \in ChunkOverlaps :
          chunking = [text |-> text, chunk_size |-> chunk_size,
                      chunk_overlap |-> chunk_overlap, chunks |-> <<>>]
    /\ now = 0 /\ vector_store = <<>> /\ doc_id = NONE
    /\ remote = NoRemote
    /\ BuilderIdle /\ RaceControlIdle /\ ClientIdle

\* semantic_chunk(text, chunk_size, chunk_overlap)
SemanticChunk ==
    /\ pc = "chunk_ready"
    /\ \E chunks \in {semantic_chunk(chunking.text, chunking.chunk_size,
                                     chunking.chunk_overlap)} :
          chunking' = [chunking EXCEPT !.chunks = chunks]
    /\ pc' = "chunked"
    /\ UNCHANGED <<now, vector_store, doc_id>>
    /\ UNCHANGED <<session_metadata, llm, laps_data, pit_data, remote, set_order,
                   debug_info, pdf_items, openf1_items, timeline, calls, result,
                   rc_messages, flag_counts, local_cache, cl_last>>

NextChunk == SemanticChunk

SpecChunk == InitChunk /\ [][NextChunk]_vars

\* C30: semantic_chunk preserves content for every input text, chunk_size and
\* chunk_overlap: every word of the input appears in at least one returned
\* chunk, also when the text or its chunks are shorter than 50 characters.
C30_EveryWordInSomeChunk ==
    pc = "chunked" =>
        \A word \in Range(split_words(chunking.text)) :
            \E i \in 1..Len(chunking.chunks) : str_in(word, chunking.chunks[i])

\* the text of the repository's test, chunked with chunk_size 20 and
\* chunk_overlap 5, has no chunk at all
C30_Witness ==
    /\ pc = "chunked"
    /\ chunking.text = join_words(<<SENT_HELLO, SENT_TEST, SENT_MORE>>)
    /\ chunking.chunk_size = 20 /\ chunking.chunk_overlap = 5
    /\ chunking.chunks = <<>>

\* a short sentence before a long one: the chunk that is returned starts with
\* the last five characters of the short one, whose first word is lost
ShortChunkDropped ==
    /\ pc = "chunked"
    /\ chunking.text = join_words(<<SENT_HELLO, SENT_SAFETY_CAR>>)
    /\ chunking.chunk_size = 60 /\ chunking.chunk_overlap = 5
    /\ chunking.chunks = << <<"o","r","l","d","."," ">> \o SENT_SAFETY_CAR >>

\* every word of a text whose chunks are all longer than 50 characters is in
\* a returned chunk
LongChunksKeepWords ==
    (pc = "chunked" /\ chunking.text = join_words(<<SENT_SAFETY_CAR, SENT_SAFETY_CAR>>)
     /\ chunking.chunk_size = 60) =>
        /\ Len(chunking.chunks) = 2
        /\ \A word \in Range(split_words(chunking.text)) :
              \E i \in 1..Len(chunking.chunks) : str_in(word, chunking.chunks[i])

====
